---- MODULE Spec2Model ----
(***************************************************************************)
(* A model of the AEM brief validator (src/app_validators/validator.py and *)
(* src/app_validators/openai_validator.py).                                *)
(*                                                                         *)
(* A Python str is a sequence of one-character strings.  The str, re and   *)
(* list operations the validator uses are operators on such sequences,     *)
(* restricted to ASCII text.                                               *)
(***************************************************************************)
EXTENDS Naturals, Sequences, FiniteSets, TLC

VARIABLES
    pc,        \* position of the running operation
    text,      \* the str argument of the case transformers / the normalizer
    res,       \* what the operation applied to text returned
    res2,      \* what the same operation returns on the first result
    rule,      \* which operation was applied to text
    tokens,    \* the matches re.sub handed to replace(), with what it returned
    location,  \* ValidationResult.location handed to _extract_fix_detail
    details,   \* ValidationResult.details handed to _extract_fix_detail
    fix,       \* the fix string parts returned by _extract_fix_detail
    brief,     \* brief_data of the running review_brief call
    hybrid,    \* self.hybrid_validator is not None
    idx,       \* loop index inside review_brief
    results,   \* self.results
    ai         \* how the external service answers during this run

vars == <<pc, text, res, res2, rule, tokens, location, details, fix,
          brief, hybrid, idx, results, ai>>

-----------------------------------------------------------------------------
(* Characters                                                              *)

LowerLetters ==
    <<"a","b","c","d","e","f","g","h","i","j","k","l","m",
      "n","o","p","q","r","s","t","u","v","w","x","y","z">>

UpperLetters ==
    <<"A","B","C","D","E","F","G","H","I","J","K","L","M",
      "N","O","P","Q","R","S","T","U","V","W","X","Y","Z">>

Digits == {"0","1","2","3","4","5","6","7","8","9"}

Range(s) == {s[i] : i \in DOMAIN s}

LowerSet == Range(LowerLetters)
UpperSet == Range(UpperLetters)

\* The characters c up to U+00FF with c.isspace(), which text.split(),
\* .strip() and .rstrip() take as whitespace: the blank, tab, line feed,
\* carriage return and form feed; the vertical tab U+000B; the separators
\* U+001C to U+001F; the next-line character U+0085 and the no-break space
\* U+00A0, each written as the character itself.  The characters above
\* U+00FF with c.isspace() cannot be written in a string and occur in no
\* input.
Whitespace ==
    {" ", "\t", "\n", "\r", "\f", "", "", "", "", "", "", " "}

\* Index of a letter in its alphabet.
LetterIndex(alphabet, c) == CHOOSE i \in DOMAIN alphabet : alphabet[i] = c

LowerMap == [c \in UpperSet |-> LowerLetters[LetterIndex(UpperLetters, c)]]
UpperMap == [c \in LowerSet |-> UpperLetters[LetterIndex(LowerLetters, c)]]

\* c.lower() and c.upper() of one ASCII character.
CharLower(c) == IF c \in UpperSet THEN LowerMap[c] ELSE c
CharUpper(c) == IF c \in LowerSet THEN UpperMap[c] ELSE c

\* re's \w on ASCII text.
IsWordChar(c) == c \in LowerSet \/ c \in UpperSet \/ c \in Digits \/ c = "_"

-----------------------------------------------------------------------------
(* str operations                                                          *)

\* s.lower(), s.upper()
Lower(s) == [i \in DOMAIN s |-> CharLower(s[i])]
Upper(s) == [i \in DOMAIN s |-> CharUpper(s[i])]

\* s.isupper(): at least one cased character and no lowercase one.
IsUpper(s) ==
    /\ \E i \in DOMAIN s : s[i] \in UpperSet
    /\ \A i \in DOMAIN s : s[i] \notin LowerSet

\* s.startswith(p)
StartsWith(s, p) == Len(s) >= Len(p) /\ SubSeq(s, 1, Len(p)) = p

\* s[i:] and s[:i] with Python's 0-based i (0 <= i).
From(s, i) == SubSeq(s, i + 1, Len(s))
Upto(s, i) == SubSeq(s, 1, IF i < Len(s) THEN i ELSE Len(s))

\* s.strip(chars): drop the characters of cs from both ends.
StripChars(s, cs) ==
    IF \A i \in DOMAIN s : s[i] \in cs THEN <<>>
    ELSE LET a == CHOOSE i \in DOMAIN s :
                     s[i] \notin cs /\ \A j \in 1..(i - 1) : s[j] \in cs
             b == CHOOSE i \in DOMAIN s :
                     s[i] \notin cs /\ \A j \in (i + 1)..Len(s) : s[j] \in cs
         IN SubSeq(s, a, b)

\* s.strip()
Strip(s) == StripChars(s, Whitespace)

\* s.rstrip()
RStrip(s) ==
    IF \A i \in DOMAIN s : s[i] \in Whitespace THEN <<>>
    ELSE LET b == CHOOSE i \in DOMAIN s :
                     s[i] \notin Whitespace
                     /\ \A j \in (i + 1)..Len(s) : s[j] \in Whitespace
         IN SubSeq(s, 1, b)

\* s.split(): the maximal runs of non-whitespace characters, in order.
RECURSIVE SplitFrom(_, _)
SplitFrom(s, i) ==
    IF i > Len(s) THEN <<>>
    ELSE IF s[i] \in Whitespace THEN SplitFrom(s, i + 1)
    ELSE LET e == CHOOSE j \in i..Len(s) :
                     /\ \A k \in i..j : s[k] \notin Whitespace
                     /\ (j = Len(s) \/ s[j + 1] \in Whitespace)
         IN <<SubSeq(s, i, e)>> \o SplitFrom(s, e + 1)

Split(s) == SplitFrom(s, 1)

\* sep.join(ws)
RECURSIVE Join(_, _)
Join(ws, sep) ==
    IF ws = <<>> THEN <<>>
    ELSE IF Len(ws) = 1 THEN ws[1]
    ELSE ws[1] \o sep \o Join(Tail(ws), sep)

\* The concatenation of a sequence of sequences.
RECURSIVE Concat(_)
Concat(ss) == IF ss = <<>> THEN <<>> ELSE ss[1] \o Concat(Tail(ss))

\* s.find(c) and s.rfind(c) as 0-based indices; c occurs in s.
Find(s, c)  == (CHOOSE i \in DOMAIN s : s[i] = c /\ \A j \in 1..(i - 1) : s[j] # c) - 1
RFind(s, c) == (CHOOSE i \in DOMAIN s : s[i] = c /\ \A j \in (i + 1)..Len(s) : s[j] # c) - 1

\* Variant: the period is missing from the tuple of sentence terminators.
EndsSentenceNoPeriod(s) ==
    LET r == RStrip(s) IN r # <<>> /\ r[Len(r)] \in {"!", "?"}

\* s.rstrip().endswith(('.', '!', '?'))
EndsSentence(s) ==
    LET r == RStrip(s) IN r # <<>> /\ r[Len(r)] \in {".", "!", "?"}

\* re.sub(r'[^\w\-]', '', word)
CleanWord(word) == SelectSeq(word, LAMBDA c : IsWordChar(c) \/ c = "-")

\* re's \b at 0-based position p of s (between s[p-1] and s[p] in Python).
WordAt(s, p) == p >= 1 /\ p <= Len(s) /\ IsWordChar(s[p])
IsBoundary(s, p) == WordAt(s, p) # WordAt(s, p + 1)

-----------------------------------------------------------------------------
(* The vocabulary table                                                    *)

FORTI == <<"f","o","r","t","i">>

\* The entries of FORTINET_SHORTHANDS, in source order: <<key, canonical>>.
ShorthandTable == <<
    <<<<"a","p","p","s","e","c">>, <<"A","p","p","S","e","c">>>>,
    <<<<"d","e","v","s","e","c","o","p","s">>, <<"D","e","v","S","e","c","O","p","s">>>>,
    <<<<"f","o","r","t","i","c","s","p","m">>, <<"F","o","r","t","i","C","S","P","M">>>>,
    <<<<"f","o","r","t","i","w","e","b">>, <<"F","o","r","t","i","W","e","b">>>>,
    <<<<"f","o","r","t","i","a","p","i","s","e","c">>, <<"F","o","r","t","i","A","P","I","S","e","c">>>>,
    <<<<"f","o","r","t","i","a","p","i","m","a","n","a","g","e","m","e","n","t">>, <<"F","o","r","t","i","A","P","I","M","a","n","a","g","e","m","e","n","t">>>>,
    <<<<"f","o","r","t","i","a","p","i","g","a","t","e","w","a","y">>, <<"F","o","r","t","i","A","P","I","G","a","t","e","w","a","y">>>>,
    <<<<"f","o","r","t","i","d","e","v","o","p","s">>, <<"F","o","r","t","i","D","e","v","O","p","s">>>>,
    <<<<"f","o","r","t","i","c","o","d","e">>, <<"F","o","r","t","i","C","o","d","e">>>>,
    <<<<"f","o","r","t","i","p","e","n","t","e","s","t">>, <<"F","o","r","t","i","P","e","n","t","e","s","t">>>>,
    <<<<"z","e","r","o"," ","t","r","u","s","t">>, <<"Z","e","r","o"," ","T","r","u","s","t">>>>,
    <<<<"z","t","n","a">>, <<"Z","T","N","A">>>>,
    <<<<"s","a","s","e">>, <<"S","A","S","E">>>>,
    <<<<"s","d","-","w","a","n">>, <<"S","D","-","W","A","N">>>>,
    <<<<"f","o","r","t","i","g","u","a","r","d">>, <<"F","o","r","t","i","G","u","a","r","d">>>>,
    <<<<"f","i","m">>, <<"F","I","M">>>>,
    <<<<"z","a","m">>, <<"Z","A","M">>>>,
    <<<<"f","a","b","r","i","c">>, <<"F","a","b","r","i","c">>>>,
    <<<<"x","d","r">>, <<"X","D","R">>>>,
    <<<<"n","d","r">>, <<"N","D","R">>>>,
    <<<<"e","d","r">>, <<"E","D","R">>>>,
    <<<<"m","d","r">>, <<"M","D","R">>>>,
    <<<<"s","i","e","m">>, <<"S","I","E","M">>>>,
    <<<<"s","o","a","r">>, <<"S","O","A","R">>>>,
    <<<<"u","e","b","a">>, <<"U","E","B","A">>>>,
    <<<<"f","o","r","t","i","x","d","r">>, <<"F","o","r","t","i","X","D","R">>>>,
    <<<<"f","o","r","t","i","s","i","e","m">>, <<"F","o","r","t","i","S","I","E","M">>>>,
    <<<<"f","o","r","t","i","s","o","c">>, <<"F","o","r","t","i","S","O","C">>>>,
    <<<<"d","d","o","s">>, <<"D","D","o","S">>>>,
    <<<<"a","p","t">>, <<"A","P","T">>>>,
    <<<<"i","p","s">>, <<"I","P","S">>>>,
    <<<<"i","d","s">>, <<"I","D","S">>>>,
    <<<<"w","a","f">>, <<"W","A","F">>>>,
    <<<<"d","l","p">>, <<"D","L","P">>>>,
    <<<<"d","e","c","e","p","t","i","o","n">>, <<"D","e","c","e","p","t","i","o","n">>>>,
    <<<<"r","t","b","h">>, <<"R","T","B","H">>>>,
    <<<<"f","o","r","t","i","g","a","t","e">>, <<"F","o","r","t","i","G","a","t","e">>>>,
    <<<<"f","o","r","t","i","p","r","o","x","y">>, <<"F","o","r","t","i","P","r","o","x","y">>>>,
    <<<<"f","o","r","t","i","s","w","i","t","c","h">>, <<"F","o","r","t","i","S","w","i","t","c","h">>>>,
    <<<<"f","o","r","t","i","a","p">>, <<"F","o","r","t","i","A","P">>>>,
    <<<<"f","o","r","t","i","c","l","i","e","n","t">>, <<"F","o","r","t","i","C","l","i","e","n","t">>>>,
    <<<<"f","o","r","t","i","a","u","t","h","e","n","t","i","c","a","t","o","r">>, <<"F","o","r","t","i","A","u","t","h","e","n","t","i","c","a","t","o","r">>>>,
    <<<<"f","o","r","t","i","t","o","k","e","n">>, <<"F","o","r","t","i","T","o","k","e","n">>>>,
    <<<<"f","o","r","t","i","n","a","c">>, <<"F","o","r","t","i","N","A","C">>>>,
    <<<<"f","o","r","t","i","a","n","a","l","y","z","e","r">>, <<"F","o","r","t","i","A","n","a","l","y","z","e","r">>>>,
    <<<<"f","o","r","t","i","m","a","n","a","g","e","r">>, <<"F","o","r","t","i","M","a","n","a","g","e","r">>>>,
    <<<<"f","o","r","t","i","m","a","i","l">>, <<"F","o","r","t","i","M","a","i","l">>>>,
    <<<<"f","o","r","t","i","s","a","n","d","b","o","x">>, <<"F","o","r","t","i","S","a","n","d","b","o","x">>>>,
    <<<<"f","o","r","t","i","d","d","o","s">>, <<"F","o","r","t","i","D","D","o","S">>>>,
    <<<<"c","s","p","m">>, <<"C","S","P","M">>>>,
    <<<<"c","w","p","p">>, <<"C","W","P","P">>>>,
    <<<<"i","a","c">>, <<"I","a","C">>>>,
    <<<<"i","t","-","o","t">>, <<"I","T","-","O","T">>>>,
    <<<<"v","p","c">>, <<"V","P","C">>>>,
    <<<<"e","c","2">>, <<"E","C","2">>>>,
    <<<<"s","3">>, <<"S","3">>>>,
    <<<<"v","m">>, <<"V","M">>>>,
    <<<<"v","m","s">>, <<"V","M","s">>>>,
    <<<<"v","m","w","a","r","e">>, <<"V","M","w","a","r","e">>>>,
    <<<<"h","y","p","e","r","-","v">>, <<"H","y","p","e","r","-","V">>>>,
    <<<<"a","z","u","r","e">>, <<"A","z","u","r","e">>>>,
    <<<<"a","w","s">>, <<"A","W","S">>>>,
    <<<<"g","c","p">>, <<"G","C","P">>>>,
    <<<<"k","u","b","e","r","n","e","t","e","s">>, <<"K","u","b","e","r","n","e","t","e","s">>>>,
    <<<<"c","o","n","t","a","i","n","e","r","s">>, <<"C","o","n","t","a","i","n","e","r","s">>>>,
    <<<<"d","o","c","k","e","r">>, <<"D","o","c","k","e","r">>>>,
    <<<<"o","t">>, <<"O","T">>>>,
    <<<<"i","o","t">>, <<"I","o","T">>>>,
    <<<<"i","c","s">>, <<"I","C","S">>>>,
    <<<<"s","c","a","d","a">>, <<"S","C","A","D","A">>>>,
    <<<<"f","o","r","t","i","o","t">>, <<"F","o","r","t","i","O","T">>>>,
    <<<<"a","i">>, <<"A","I">>>>,
    <<<<"m","l">>, <<"M","L">>>>,
    <<<<"r","p","a">>, <<"R","P","A">>>>,
    <<<<"a","o","p","s">>, <<"A","I","O","p","s">>>>,
    <<<<"f","o","r","t","i","a","i">>, <<"F","o","r","t","i","A","I">>>>,
    <<<<"a","p","i">>, <<"A","P","I">>>>,
    <<<<"a","p","i","s">>, <<"A","P","I","s">>>>
    >>

ShorthandKeys == {ShorthandTable[i][1] : i \in DOMAIN ShorthandTable}

\* FORTINET_SHORTHANDS as a dict: key -> canonical display form.
FORTINET_SHORTHANDS ==
    [k \in ShorthandKeys |->
        ShorthandTable[CHOOSE i \in DOMAIN ShorthandTable : ShorthandTable[i][1] = k][2]]

\* core_lower in self.FORTINET_SHORTHANDS / self.FORTINET_SHORTHANDS[core_lower]
InShorthands(k) == k \in DOMAIN FORTINET_SHORTHANDS

-----------------------------------------------------------------------------
(* _fix_acronym_plurals_rule_based                                         *)

\* acronym_fixes, in insertion order: <<word of the \bword\b pattern, replacement>>.
acronym_fixes == <<
    <<<<"V","p","n","s">>, <<"V","P","N","s">>>>,
    <<<<"A","p","i","s">>, <<"A","P","I","s">>>>,
    <<<<"U","r","l","s">>, <<"U","R","L","s">>>>,
    <<<<"S","d","k","s">>, <<"S","D","K","s">>>>,
    <<<<"V","m","s">>, <<"V","M","s">>>>,
    <<<<"I","p","s">>, <<"I","P","s">>>>,
    <<<<"I","d","s">>, <<"I","D","s">>>>,
    <<<<"F","a","q","s">>, <<"F","A","Q","s">>>>,
    <<<<"P","d","f","s">>, <<"P","D","F","s">>>>,
    <<<<"C","s","v","s">>, <<"C","S","V","s">>>>,
    <<<<"S","l","a","s">>, <<"S","L","A","s">>>>,
    <<<<"K","p","i","s">>, <<"K","P","I","s">>>>
    >>

\* The pattern \bw\b matches s at 1-based position p.
WholeWordAt(s, p, w) ==
    /\ p + Len(w) - 1 <= Len(s)
    /\ SubSeq(s, p, p + Len(w) - 1) = w
    /\ IsBoundary(s, p - 1)
    /\ IsBoundary(s, p + Len(w) - 1)

\* re.sub(r'\bw\b', rep, s), scanning from 1-based position i.
RECURSIVE SubWordFrom(_, _, _, _)
SubWordFrom(s, i, w, rep) ==
    IF i > Len(s) THEN <<>>
    ELSE IF WholeWordAt(s, i, w) THEN rep \o SubWordFrom(s, i + Len(w), w, rep)
    ELSE <<s[i]>> \o SubWordFrom(s, i + 1, w, rep)

\* The loop over acronym_fixes.items(), from entry k on.
RECURSIVE ApplyFixes(_, _)
ApplyFixes(s, k) ==
    IF k > Len(acronym_fixes) THEN s
    ELSE ApplyFixes(SubWordFrom(s, 1, acronym_fixes[k][1], acronym_fixes[k][2]), k + 1)

\* Variant: the first entry of acronym_fixes is missing.
fix_acronym_plurals_without_first(s) == ApplyFixes(s, 2)

fix_acronym_plurals_rule_based(s) == ApplyFixes(s, 1)

-----------------------------------------------------------------------------
(* The case transformers                                                   *)

FAQS_LOWER == <<"f","a","q","s">>
FAQS_FIXED == <<"F","A","Q","s">>
VS_LOWER   == <<"v","s">>
VS_CAPITAL == <<"V","s">>

\* word[0].upper() + word[1:].lower() if len(word) > 1 else word.upper()
Capitalize(word) ==
    IF Len(word) > 1 THEN <<CharUpper(word[1])>> \o Lower(Tail(word))
    ELSE Upper(word)

\* clean_word.lower().startswith('forti')
IsFortiPrefixed(core) == StartsWith(Lower(core), FORTI)

\* One iteration of the loop of _validate_capital_case.
CapitalWord(word) ==
    IF IsFortiPrefixed(CleanWord(word)) THEN word
    ELSE IF IsUpper(word) /\ Len(word) > 1 THEN word
    ELSE IF Lower(word) = FAQS_LOWER THEN FAQS_FIXED
    ELSE IF Lower(word) = VS_LOWER THEN VS_CAPITAL
    ELSE Capitalize(word)

\* corrected_words of _validate_capital_case at the end of its loop.
CapitalWords(t) ==
    LET words == Split(t) IN [i \in DOMAIN words |-> CapitalWord(words[i])]

\* The end of each transformer: ' '.join(corrected_words), the repair pass,
\* and the pair (text == corrected_text, corrected_text).
Finish(t, corrected_words) ==
    LET corrected_text == fix_acronym_plurals_rule_based(Join(corrected_words, <<" ">>))
    IN <<t = corrected_text, corrected_text>>

validate_capital_case(t) ==
    IF t = <<>> THEN <<TRUE, <<>>>> ELSE Finish(t, CapitalWords(t))

lowercase_words == {
    <<"a">>, <<"a","n">>, <<"t","h","e">>, <<"a","n","d">>, <<"b","u","t">>, <<"o","r">>, <<"n","o","r">>, <<"i","n">>, <<"o","f">>, <<"t","o">>,
    <<"f","o","r">>, <<"a","t">>, <<"b","y">>, <<"o","n">>, <<"w","i","t","h">>, <<"f","r","o","m">>, <<"i","n","t","o">> }

TitlePrefixChars == {"(", "["}
TitleSuffixChars == {")", "]", "?", ","}
IsCoreChar(c) == IsWordChar(c) \/ c = "-"

\* re.match(r'^([(\[]?)([\w\-]+)([)\]?,?\?]*)$', word): the groups, or ok = FALSE.
TitleMatch(word) ==
    LET p    == IF word # <<>> /\ word[1] \in TitlePrefixChars THEN 1 ELSE 0
        rest == From(word, p)
        n    == Cardinality({i \in DOMAIN rest : \A j \in 1..i : IsCoreChar(rest[j])})
        suf  == From(rest, n)
    IN [ok     |-> n > 0 /\ \A i \in DOMAIN suf : suf[i] \in TitleSuffixChars,
        prefix |-> Upto(word, p),
        core   |-> Upto(rest, n),
        suffix |-> suf]

\* re.sub(r'[.!?;:]', '', word.lower())
TitleWordLower(word) ==
    SelectSeq(Lower(word), LAMBDA c : c \notin {".", "!", "?", ";", ":"})

\* Variant: "vs" is lowercase at every position.
TitleWordVsLower(word, is_first, is_last) ==
    LET m == TitleMatch(word) IN
    IF m.ok /\ IsFortiPrefixed(m.core) THEN word
    ELSE IF m.ok /\ InShorthands(Lower(m.core))
        THEN m.prefix \o FORTINET_SHORTHANDS[Lower(m.core)] \o m.suffix
    ELSE IF IsUpper(word) /\ Len(word) > 1 THEN word
    ELSE IF Lower(word) = FAQS_LOWER THEN FAQS_FIXED
    ELSE IF Lower(word) = VS_LOWER THEN VS_LOWER
    ELSE IF TitleWordLower(word) \in lowercase_words /\ ~is_first /\ ~is_last
        THEN TitleWordLower(word)
    ELSE Capitalize(word)

\* One iteration of the loop of _validate_title_case.
TitleWord(word, is_first, is_last) ==
    LET m == TitleMatch(word) IN
    IF m.ok /\ IsFortiPrefixed(m.core) THEN word
    ELSE IF m.ok /\ InShorthands(Lower(m.core))
        THEN m.prefix \o FORTINET_SHORTHANDS[Lower(m.core)] \o m.suffix
    ELSE IF IsUpper(word) /\ Len(word) > 1 THEN word
    ELSE IF Lower(word) = FAQS_LOWER THEN FAQS_FIXED
    ELSE IF Lower(word) = VS_LOWER
        THEN (IF is_first \/ is_last THEN VS_CAPITAL ELSE VS_LOWER)
    ELSE IF TitleWordLower(word) \in lowercase_words /\ ~is_first /\ ~is_last
        THEN TitleWordLower(word)
    ELSE Capitalize(word)

\* corrected_words of _validate_title_case at the end of its loop.
TitleWords(t) ==
    LET words == Split(t)
    IN [i \in DOMAIN words |-> TitleWord(words[i], i = 1, i = Len(words))]

validate_title_case(t) ==
    IF t = <<>> THEN <<TRUE, <<>>>> ELSE Finish(t, TitleWords(t))

\* The dictionary branch of _validate_sentence_case: canonical form with the
\* prefix and suffix found by word.index(clean_word[0]) / word.index(clean_word[-1]).
SentenceShorthand(word, clean_word) ==
    LET corrected == FORTINET_SHORTHANDS[Lower(clean_word)]
        last      == clean_word[Len(clean_word)]
        prefix    == Upto(word, Find(word, clean_word[1]))
        suffix    == IF Find(word, last) < Len(word) - 1
                     THEN From(word, Find(word, last) + 1) ELSE <<>>
    IN IF word # clean_word THEN prefix \o corrected \o suffix ELSE corrected

\* The last branch of _validate_sentence_case: lowercase the core of a word
\* that has capitals, between word.find(clean_word[0]) and word.rfind(clean_word[-1]).
SentenceLowerCore(word, clean_word) ==
    LET start_idx == Find(word, clean_word[1])
        end_idx   == RFind(word, clean_word[Len(clean_word)])
    IN IF word # clean_word
       THEN Upto(word, start_idx)
            \o Lower(SubSeq(word, start_idx + 1, end_idx + 1))
            \o From(word, end_idx + 1)
       ELSE Lower(clean_word)

\* One iteration of the loop of _validate_sentence_case:
\* the corrected word and the next value of sentence_start.
SentenceWord(word, sentence_start) ==
    LET clean_word == CleanWord(word) IN
    IF IsFortiPrefixed(clean_word)
        THEN [out |-> word, start |-> EndsSentence(word)]
    ELSE IF InShorthands(Lower(clean_word))
        THEN [out |-> SentenceShorthand(word, clean_word), start |-> EndsSentence(word)]
    ELSE IF IsUpper(clean_word) /\ Len(clean_word) > 1
        THEN [out |-> word, start |-> FALSE]
    ELSE IF sentence_start
        THEN [out   |-> IF word[1] \in LowerSet
                        THEN <<CharUpper(word[1])>> \o Tail(word) ELSE word,
              start |-> EndsSentence(word)]
    ELSE IF \E i \in DOMAIN clean_word : clean_word[i] \in UpperSet
        THEN [out |-> SentenceLowerCore(word, clean_word), start |-> EndsSentence(word)]
    ELSE [out |-> word, start |-> EndsSentence(word)]

\* The loop of _validate_sentence_case from word i on, with the flag's value.
RECURSIVE SentenceWords(_, _, _)
SentenceWords(words, i, sentence_start) ==
    IF i > Len(words) THEN <<>>
    ELSE LET r == SentenceWord(words[i], sentence_start)
         IN <<r.out>> \o SentenceWords(words, i + 1, r.start)

validate_sentence_case(t) ==
    IF t = <<>> THEN <<TRUE, <<>>>>
    ELSE Finish(t, SentenceWords(Split(t), 1, TRUE))

\* The criterion names of the three transformers.
CAPITAL  == "Capital Case"
TITLE    == "Title Case"
SENTENCE == "Sentence case"

\* The transformer of a rule name.
Transformer(r, t) ==
    IF r = CAPITAL THEN validate_capital_case(t)
    ELSE IF r = TITLE THEN validate_title_case(t)
    ELSE validate_sentence_case(t)

-----------------------------------------------------------------------------
(* _normalize_fortinet_shorthands                                          *)

\* [a-zA-Z\-]
IsShorthandChar(c) == c \in LowerSet \/ c \in UpperSet \/ c = "-"

\* A match of (\()?(\b[a-zA-Z\-]+\b)(\)?\??) starting at 1-based position i:
\* first and last position of the core and last position of the match.
ShorthandMatch(s, i) ==
    LET cs   == IF s[i] = "(" THEN i + 1 ELSE i
        ends == {e \in cs..Len(s) :
                    /\ \A k \in cs..e : IsShorthandChar(s[k])
                    /\ IsBoundary(s, e)}
        ce   == CHOOSE e \in ends : \A f \in ends : f <= e
        e1   == IF ce + 1 <= Len(s) /\ s[ce + 1] = ")" THEN ce + 1 ELSE ce
        e2   == IF e1 + 1 <= Len(s) /\ s[e1 + 1] = "?" THEN e1 + 1 ELSE e1
    IN IF cs <= Len(s) /\ IsBoundary(s, cs - 1) /\ ends # {}
       THEN [ok |-> TRUE, from |-> i, cs |-> cs, ce |-> ce, to |-> e2]
       ELSE [ok |-> FALSE, from |-> i, cs |-> cs, ce |-> cs, to |-> i]

\* Variant: the replacement is returned without match.group(1).
replace_without_prefix(s, m) ==
    LET core   == SubSeq(s, m.cs, m.ce)
        suffix == SubSeq(s, m.ce + 1, m.to)
    IN IF IsFortiPrefixed(core) THEN SubSeq(s, m.from, m.to)
       ELSE (IF InShorthands(Lower(core)) THEN FORTINET_SHORTHANDS[Lower(core)] ELSE core)
            \o suffix

\* Variant: the dictionary is looked up before the brand-prefix check.
replace_dictionary_first(s, m) ==
    LET prefix == SubSeq(s, m.from, m.cs - 1)
        core   == SubSeq(s, m.cs, m.ce)
        suffix == SubSeq(s, m.ce + 1, m.to)
    IN IF InShorthands(Lower(core))
       THEN prefix \o FORTINET_SHORTHANDS[Lower(core)] \o suffix
       ELSE SubSeq(s, m.from, m.to)

\* replace(match) of _normalize_fortinet_shorthands.
replace(s, m) ==
    LET prefix == SubSeq(s, m.from, m.cs - 1)
        core   == SubSeq(s, m.cs, m.ce)
        suffix == SubSeq(s, m.ce + 1, m.to)
    IN IF IsFortiPrefixed(core) THEN SubSeq(s, m.from, m.to)
       ELSE prefix
            \o (IF InShorthands(Lower(core)) THEN FORTINET_SHORTHANDS[Lower(core)] ELSE core)
            \o suffix

\* re.sub(pattern, replace, text), scanning from 1-based position i.
RECURSIVE NormalizeFrom(_, _)
NormalizeFrom(s, i) ==
    IF i > Len(s) THEN <<>>
    ELSE LET m == ShorthandMatch(s, i)
         IN IF m.ok THEN replace(s, m) \o NormalizeFrom(s, m.to + 1)
            ELSE <<s[i]>> \o NormalizeFrom(s, i + 1)

normalize_fortinet_shorthands(t) ==
    IF t = <<>> THEN t ELSE NormalizeFrom(t, 1)

\* The successive matches re.sub finds in s from 1-based position i on.
RECURSIVE ShorthandMatches(_, _)
ShorthandMatches(s, i) ==
    IF i > Len(s) THEN <<>>
    ELSE LET m == ShorthandMatch(s, i)
         IN IF m.ok THEN <<m>> \o ShorthandMatches(s, m.to + 1)
            ELSE ShorthandMatches(s, i + 1)

\* For each call of replace(match): match.group(0), match.group(2) and the
\* string replace returned.
ReplaceCalls(s) ==
    LET ms == ShorthandMatches(s, 1)
    IN [k \in DOMAIN ms |->
           [src  |-> SubSeq(s, ms[k].from, ms[k].to),
            core |-> SubSeq(s, ms[k].cs, ms[k].ce),
            out  |-> replace(s, ms[k])]]

-----------------------------------------------------------------------------
(* _extract_fix_detail                                                     *)

NO_CHANGE_NEEDED    == <<"N","o"," ","c","h","a","n","g","e"," ","n","e","e","d","e","d">>
NO_CHANGES_DETECTED == <<"N","o"," ","c","h","a","n","g","e","s"," ","d","e","t","e","c","t","e","d">>

\* The character U+2192 of the replace edits, as one character.
ARROW == "->"

\* result.details.strip().strip('"').strip("'")
StripQuotes(d) == StripChars(StripChars(Strip(d), {"\""}), {"'"})

\* words[i] if i < len(words) else "", for a 1-based i.
WordOrEmpty(words, i) == IF i <= Len(words) THEN words[i] ELSE <<>>

\* Variant: a position only the corrected text has is reported as removed,
\* and one only the original has as added.
ChangeSwapped(current_word, recommended_word) ==
    IF current_word = recommended_word THEN <<>>
    ELSE IF current_word # <<>> /\ recommended_word # <<>>
        THEN <<current_word \o <<" ", ARROW, " ">> \o recommended_word>>
    ELSE IF current_word # <<>>
        THEN <<<<"A","d","d",":"," ">> \o current_word>>
    ELSE <<<<"R","e","m","o","v","e",":"," ">> \o recommended_word>>

\* The text appended to changes for position i, or no text when the words agree.
Change(current_word, recommended_word) ==
    IF current_word = recommended_word THEN <<>>
    ELSE IF current_word # <<>> /\ recommended_word # <<>>
        THEN <<current_word \o <<" ", ARROW, " ">> \o recommended_word>>
    ELSE IF current_word # <<>>
        THEN <<<<"R","e","m","o","v","e",":"," ">> \o current_word>>
    ELSE <<<<"A","d","d",":"," ">> \o recommended_word>>

\* changes after the loop over range(max_length), from 1-based position i on.
RECURSIVE Changes(_, _, _)
Changes(current_words, recommended_words, i) ==
    IF i > Len(current_words) /\ i > Len(recommended_words) THEN <<>>
    ELSE Change(WordOrEmpty(current_words, i), WordOrEmpty(recommended_words, i))
         \o Changes(current_words, recommended_words, i + 1)

\* Number of edits the fix string lists before the ellipsis.
MAX_SHOWN == 3

\* Variant: every edit is listed, with no ellipsis.
RenderAll(changes) == Join(changes, <<",", " ">>)

\* The return value built from a non-empty changes list.
Render(changes) ==
    IF Len(changes) > MAX_SHOWN
    THEN Join(SubSeq(changes, 1, MAX_SHOWN), <<",", " ">>) \o <<".", ".", ".">>
    ELSE Join(changes, <<",", " ">>)

\* _extract_fix_detail(result) for result.location = loc, result.details = det:
\* the changes list at the return and the returned string.
extract_fix_detail(loc, det) ==
    LET current_text     == Strip(loc)
        recommended_text == StripQuotes(det)
        changes          == Changes(Split(current_text), Split(recommended_text), 1)
    IN IF current_text = recommended_text
       THEN [changes |-> <<>>, ret |-> NO_CHANGE_NEEDED]
       ELSE IF changes # <<>>
       THEN [changes |-> changes, ret |-> Render(changes)]
       ELSE [changes |-> <<>>, ret |-> NO_CHANGES_DETECTED]

\* f'"{corrected}"': the details of every ValidationResult review_brief collects.
Quoted(corrected) == <<"\"">> \o corrected \o <<"\"">>

-----------------------------------------------------------------------------
(* The exceptions of the subscripts and index calls of the core            *)

\* s[i], for a 0-based i: the exception it raises, if any.
IndexError(s, i) == IF i + 1 \in DOMAIN s THEN {} ELSE {"IndexError"}

\* s.index(c): the exception it raises, if any.
ValueError(s, c) == IF \E k \in DOMAIN s : s[k] = c THEN {} ELSE {"ValueError"}

\* word[0].upper() + word[1:].lower() if len(word) > 1 else word.upper()
capitalize_raises(word) == IF Len(word) > 1 THEN IndexError(word, 0) ELSE {}

\* One iteration of the loop of _validate_capital_case.
capital_word_raises(word) ==
    IF IsFortiPrefixed(CleanWord(word)) THEN {}
    ELSE IF IsUpper(word) /\ Len(word) > 1 THEN {}
    ELSE IF Lower(word) = FAQS_LOWER THEN {}
    ELSE IF Lower(word) = VS_LOWER THEN {}
    ELSE capitalize_raises(word)

capital_case_raises(t) ==
    IF t = <<>> THEN {}
    ELSE LET words == Split(t) IN UNION {capital_word_raises(words[i]) : i \in DOMAIN words}

\* One iteration of the loop of _validate_title_case.
title_word_raises(word, is_first, is_last) ==
    LET m == TitleMatch(word) IN
    IF m.ok /\ IsFortiPrefixed(m.core) THEN {}
    ELSE IF m.ok /\ InShorthands(Lower(m.core)) THEN {}
    ELSE IF IsUpper(word) /\ Len(word) > 1 THEN {}
    ELSE IF Lower(word) = FAQS_LOWER THEN {}
    ELSE IF Lower(word) = VS_LOWER THEN {}
    ELSE IF TitleWordLower(word) \in lowercase_words /\ ~is_first /\ ~is_last THEN {}
    ELSE capitalize_raises(word)

title_case_raises(t) ==
    IF t = <<>> THEN {}
    ELSE LET words == Split(t)
         IN UNION {title_word_raises(words[i], i = 1, i = Len(words)) : i \in DOMAIN words}

\* prefix = word[:word.index(clean_word[0])] if clean_word[0] in word else ''
shorthand_prefix_raises(word, clean_word) ==
    IF IndexError(clean_word, 0) # {} THEN IndexError(clean_word, 0)
    ELSE IF \E k \in DOMAIN word : word[k] = clean_word[1]
        THEN ValueError(word, clean_word[1])
    ELSE {}

\* suffix = word[word.index(clean_word[-1])+1:] if clean_word[-1] in word
\*          and word.index(clean_word[-1]) < len(word)-1 else ''
shorthand_suffix_raises(word, clean_word) ==
    IF IndexError(clean_word, Len(clean_word) - 1) # {}
        THEN IndexError(clean_word, Len(clean_word) - 1)
    ELSE IF \E k \in DOMAIN word : word[k] = clean_word[Len(clean_word)]
        THEN ValueError(word, clean_word[Len(clean_word)])
    ELSE {}

\* start_idx = word.find(clean_word[0]) if clean_word else 0
\* end_idx = word.rfind(clean_word[-1]) if clean_word else len(word)
lower_core_raises(word, clean_word) ==
    IF clean_word # <<>>
    THEN IndexError(clean_word, 0) \cup IndexError(clean_word, Len(clean_word) - 1)
    ELSE {}

\* One iteration of the loop of _validate_sentence_case.
sentence_word_raises(word, sentence_start) ==
    LET clean_word == CleanWord(word) IN
    IF IsFortiPrefixed(clean_word) THEN {}
    ELSE IF InShorthands(Lower(clean_word))
        THEN (IF word # clean_word
              THEN shorthand_prefix_raises(word, clean_word)
                   \cup shorthand_suffix_raises(word, clean_word)
              ELSE {})
    ELSE IF IsUpper(clean_word) /\ Len(clean_word) > 1 THEN {}
    ELSE IF sentence_start
        THEN (IF Len(word) > 0 THEN IndexError(word, 0) ELSE {})
    ELSE IF \E i \in DOMAIN clean_word : clean_word[i] \in UpperSet
        THEN (IF word # clean_word THEN lower_core_raises(word, clean_word) ELSE {})
    ELSE {}

\* The loop of _validate_sentence_case from word i on.
RECURSIVE sentence_words_raise(_, _, _)
sentence_words_raise(words, i, sentence_start) ==
    IF i > Len(words) THEN {}
    ELSE sentence_word_raises(words[i], sentence_start)
         \cup sentence_words_raise(words, i + 1, SentenceWord(words[i], sentence_start).start)

sentence_case_raises(t) ==
    IF t = <<>> THEN {} ELSE sentence_words_raise(Split(t), 1, TRUE)

\* Variant: the words at position i are read without the length tests.
fix_detail_raises_unguarded(loc, det) ==
    LET current_words     == Split(Strip(loc))
        recommended_words == Split(StripQuotes(det))
        max_length        == IF Len(current_words) > Len(recommended_words)
                             THEN Len(current_words) ELSE Len(recommended_words)
    IN IF Strip(loc) = StripQuotes(det) THEN {}
       ELSE UNION {IndexError(current_words, i) \cup IndexError(recommended_words, i) :
                      i \in 0..(max_length - 1)}

\* current_words[i] if i < len(current_words) else "", and the same for
\* recommended_words, for i in range(max_length).
fix_detail_raises(loc, det) ==
    LET current_words     == Split(Strip(loc))
        recommended_words == Split(StripQuotes(det))
        max_length        == IF Len(current_words) > Len(recommended_words)
                             THEN Len(current_words) ELSE Len(recommended_words)
    IN IF Strip(loc) = StripQuotes(det) THEN {}
       ELSE UNION {(IF i < Len(current_words) THEN IndexError(current_words, i) ELSE {})
                   \cup (IF i < Len(recommended_words)
                         THEN IndexError(recommended_words, i) ELSE {}) :
                      i \in 0..(max_length - 1)}


-----------------------------------------------------------------------------
(* OpenAIValidator and HybridValidator                                     *)

NO_CHANGE == <<"N","o"," ","c","h","a","n","g","e">>

\* response.choices[0].message.content for the given prompt text, by the way
\* the service answers: the literal "No change", the input echoed back, the
\* input in double quotes, the input in single quotes, a re-cased text, or
\* some other text.
Content(kind, t, recased) ==
    IF kind = "no_change" THEN NO_CHANGE
    ELSE IF kind = "echo" THEN t
    ELSE IF kind = "quoted" THEN <<"\"">> \o t \o <<"\"">>
    ELSE IF kind = "single_quoted" THEN <<"'">> \o t \o <<"'">>
    ELSE IF kind = "recased" THEN recased
    ELSE Upper(t)

\* Variant: the external service is asked about an empty text as well.
ai_validate_empty_asked(a, t, recased) ==
    IF a.kind = "error" THEN <<TRUE, t>>
    ELSE LET result == Strip(Content(a.kind, t, recased))
         IN IF result = NO_CHANGE THEN <<TRUE, t>> ELSE <<FALSE, result>>

\* OpenAIValidator.validate_title_case / validate_sentence_case:
\* (is_valid, corrected_text); the except branch answers (True, text).
ai_validate(a, t, recased) ==
    IF t = <<>> THEN <<TRUE, <<>>>>
    ELSE IF a.kind = "error" THEN <<TRUE, t>>
    ELSE LET result == Strip(Content(a.kind, t, recased))
         IN IF result = NO_CHANGE THEN <<TRUE, t>> ELSE <<FALSE, result>>

\* OpenAIValidator.detect_unknown_terms: [] for an empty text and when the
\* call fails.
detect_unknown_terms(a, t) ==
    IF t = <<>> \/ a.kind = "error" THEN <<>> ELSE a.unknown

\* Variant: on disagreement the rule-based correction is recommended.
MergePreferRule(t, rule_based_result, ai_result, unknown_terms) ==
    [rule_based_valid     |-> rule_based_result[1],
     rule_based_corrected |-> rule_based_result[2],
     ai_valid             |-> ai_result[1],
     ai_corrected         |-> ai_result[2],
     unknown_terms        |-> unknown_terms,
     agreement            |-> (rule_based_result[1] = ai_result[1]),
     final_recommendation |->
         IF ~rule_based_result[1] THEN rule_based_result[2] ELSE t]

\* The dict both hybrid methods build from the external answer.
Merge(t, rule_based_result, ai_result, unknown_terms) ==
    LET rule_valid     == rule_based_result[1]
        rule_corrected == rule_based_result[2]
        ai_valid       == ai_result[1]
        ai_corrected   == ai_result[2]
        agreement      == (rule_valid = ai_valid)
    IN [rule_based_valid     |-> rule_valid,
        rule_based_corrected |-> rule_corrected,
        ai_valid             |-> ai_valid,
        ai_corrected         |-> ai_corrected,
        unknown_terms        |-> unknown_terms,
        agreement            |-> agreement,
        final_recommendation |->
            IF agreement
            THEN (IF ~rule_valid THEN rule_corrected ELSE t)
            ELSE (IF ~ai_valid THEN ai_corrected ELSE t)]

\* "recased" answers with the text the rule-based transformer of the same
\* rule proposes.
validate_title_case_hybrid(a, t, rule_based_result) ==
    Merge(t, rule_based_result,
          ai_validate(a, t, rule_based_result[2]),
          detect_unknown_terms(a, t))

validate_sentence_case_hybrid(a, t, rule_based_result) ==
    Merge(t, rule_based_result,
          ai_validate(a, t, rule_based_result[2]),
          detect_unknown_terms(a, t))

-----------------------------------------------------------------------------
(* The _validate_<field> methods                                           *)

ACCEPTED == "ACCEPTED"
REJECTED == "REJECTED"

\* The default of ValidationResult.unknown_terms.
None == "None"

\* ValidationResult(use_case, criterion, location, status, details, category).
ValidationResult(use_case, criterion, loc, valid, corrected, category) ==
    [use_case      |-> use_case,
     criterion     |-> criterion,
     location      |-> loc,
     status        |-> IF valid THEN ACCEPTED ELSE REJECTED,
     details       |-> Quoted(corrected),
     category      |-> category,
     ai_validated  |-> FALSE,
     ai_result     |-> <<>>,
     unknown_terms |-> None]

\* The ValidationResult built inside the try block from hybrid_result.
HybridResult(use_case, criterion, loc, final_valid, h, category) ==
    [use_case      |-> use_case,
     criterion     |-> criterion,
     location      |-> loc,
     status        |-> IF final_valid THEN ACCEPTED ELSE REJECTED,
     details       |-> Quoted(h.final_recommendation),
     category      |-> category,
     ai_validated  |-> TRUE,
     ai_result     |-> h.ai_corrected,
     unknown_terms |-> h.unknown_terms]

\* The hybrid branch is taken and returns: a hybrid validator exists and its
\* method does not raise.  For an empty text no request is made (both
\* methods of OpenAIValidator return at `if not text`), so nothing raises.
HybridReturns(h, a, t) == h /\ (a.kind # "raise" \/ t = <<>>)

\* Variant: the method with the comparison accepts whatever the rule-based
\* transformer answered.
HybridAppendAccepting(use_case, criterion, category, override, h, a, t, r, hr) ==
    IF HybridReturns(h, a, t)
    THEN HybridResult(use_case, criterion, t,
             hr.ai_valid
                 \/ (override /\ Strip(t) = StripQuotes(hr.final_recommendation)),
             hr, category)
    ELSE ValidationResult(use_case, criterion, t, r[1] \/ override, r[2], category)

\* What a method with an external opinion appends, given the normalized text
\* t, the rule-based result r and the dict hr of the hybrid validator.
\* override: the method compares the trimmed text with the recommendation
\* before it builds the result.
HybridAppend(use_case, criterion, category, override, h, a, t, r, hr) ==
    IF HybridReturns(h, a, t)
    THEN HybridResult(use_case, criterion, t,
             hr.ai_valid
                 \/ (override /\ Strip(t) = StripQuotes(hr.final_recommendation)),
             hr, category)
    ELSE ValidationResult(use_case, criterion, t,
             r[1] \/ (override /\ Strip(t) = Strip(r[2])), r[2], category)

meta_title_append(h, a, t, r) ==
    HybridAppend("Meta Title", TITLE, "Metadata", TRUE,
                 h, a, t, r, validate_title_case_hybrid(a, t, r))

meta_title_checked(h, a, t) == meta_title_append(h, a, t, validate_title_case(t))

validate_meta_title(h, a, field) ==
    meta_title_checked(h, a, normalize_fortinet_shorthands(field))

meta_description_append(h, a, t, r) ==
    HybridAppend("Meta Description", SENTENCE, "Metadata", FALSE,
                 h, a, t, r, validate_sentence_case_hybrid(a, t, r))

meta_description_checked(h, a, t) ==
    meta_description_append(h, a, t, validate_sentence_case(t))

validate_meta_description(h, a, field) ==
    meta_description_checked(h, a, normalize_fortinet_shorthands(field))

product_nav_tab_append(h, a, t, r) ==
    HybridAppend("Product Nav Tab", TITLE, "Product Navigation", FALSE,
                 h, a, t, r, validate_title_case_hybrid(a, t, r))

product_nav_tab_checked(h, a, t) ==
    product_nav_tab_append(h, a, t, validate_title_case(t))

validate_product_nav_tab(h, a, field) ==
    product_nav_tab_checked(h, a, normalize_fortinet_shorthands(field))

\* The methods without an external opinion: normalize, transform, append.
RuleBasedAppend(use_case, criterion, t, r, category) ==
    ValidationResult(use_case, criterion, t, r[1], r[2], category)

capital_checked(use_case, t, category) ==
    RuleBasedAppend(use_case, CAPITAL, t, validate_capital_case(t), category)

sentence_checked(use_case, t, category) ==
    RuleBasedAppend(use_case, SENTENCE, t, validate_sentence_case(t), category)

validate_h1(field) ==
    capital_checked("H1", normalize_fortinet_shorthands(field), "Metadata")
validate_header_caption(field) ==
    sentence_checked("Header Caption", normalize_fortinet_shorthands(field), "Metadata")
validate_h2(field) ==
    capital_checked("H2", normalize_fortinet_shorthands(field), "Headers")
\* Variant: H3 is checked against capital case.
validate_h3_capital(field) ==
    capital_checked("H3", normalize_fortinet_shorthands(field), "Headers")

validate_h3(field) ==
    sentence_checked("H3", normalize_fortinet_shorthands(field), "Headers")
validate_h4(field) ==
    sentence_checked("H4", normalize_fortinet_shorthands(field), "Headers")
validate_faq_header(field) ==
    capital_checked("FAQ H2 Header", normalize_fortinet_shorthands(field), "FAQs")
validate_faq_question(field) ==
    sentence_checked("FAQ Question", normalize_fortinet_shorthands(field), "FAQs")
validate_faq_answer(field) ==
    sentence_checked("FAQ Answer", normalize_fortinet_shorthands(field), "FAQs")
validate_cta_text(field) ==
    sentence_checked("CTA Text", normalize_fortinet_shorthands(field), "CTA")

-----------------------------------------------------------------------------
(* Inputs                                                                  *)

\* Value of a variable the running specification does not use.
Idle == <<>>

\* Longest text, in words, given to a case transformer.
MaxWords == 2

\* Words the transformer inputs are made of: brand-prefixed tokens (bare,
\* hyphenated, with attached punctuation), vocabulary keys, acronym plurals,
\* function words, acronyms and ordinary words.
CaseWords == {
    <<"f","o","r","t","i","n","e","t">>, <<"F","o","r","t","i","G","a","t","e",".">>, <<"F","o","r","t","i","-","V","p","n","s">>, <<"(","F","o","r","t","i","W","e","b",")">>,
    <<"e","d","r">>, <<"a","o","p","s">>, <<"c","w","p","p",")">>,
    <<"v","p","n","s">>, <<"A","p","i","s">>, <<"V","P","N",".">>,
    <<"t","h","e">>, <<"v","s">>, <<"a">>, <<"H","e","l","l","o">>, <<"w","o","r","l","d",".">> }

\* The texts of the worked examples of the specification.
SENTENCE_EXAMPLE == <<"f","o","r","t","i","n","e","t"," ","o","f","f","e","r","s"," ","e","d","r","."," ","i","t"," ","a","l","s","o"," ","o","f","f","e","r","s"," ","x","d","r",".">>

FIREWALL_EXAMPLE == <<"F","i","r","e","w","a","l","l"," ","v","s"," ","P","r","o","x","y">>
SECURITY_EXAMPLE == <<"S","e","c","u","r","i","t","y"," ","A","p","p","l","i","a","n","c","e"," ","v","s"," ","T","h","e"," ","C","l","o","u","d">>

\* A function word, or "vs", in lowercase, capitalized and in upper case.
FunctionTokens ==
    UNION {{w, Capitalize(w), Upper(w)} : w \in lowercase_words \cup {VS_LOWER}}

\* Texts with a function word between a first and a last word.
TitleExamples ==
    {FIREWALL_EXAMPLE, SECURITY_EXAMPLE}
    \cup {Join(<<<<"H","e","l","l","o">>, w, <<"W","o","r","l","d">>>>, <<" ">>) : w \in FunctionTokens}

\* Texts whose first or last word carries leading punctuation.
BoundaryExamples == {
    <<"(","h","e","l","l","o"," ","w","o","r","l","d",")">>,
    <<"h","e","l","l","o"," ","(","t","h","e",")">>,
    <<"\"","h","e","l","l","o","\""," ","W","o","r","l","d">> }

\* Texts with a function word that carries punctuation between a first and
\* a last word.
PunctuatedExamples ==
    {Join(<<<<"H","e","l","l","o">>, w \o <<p>>, <<"W","o","r","l","d">>>>, <<" ">>) :
        w \in {<<"t","h","e">>, <<"O","f">>}, p \in {".", ":", "!"}}

\* Texts whose words are separated by a tab, by a line feed, by two
\* blanks, by a vertical tab, and by a separator and a no-break space.
WhitespaceExamples == {
    <<"H","e","l","l","o","\t","W","o","r","l","d">>,
    <<"t","h","e"," ","e","d","r",".","\n","i","t"," ","w","o","r","k","s">>,
    <<"H","e","l","l","o"," "," ","w","o","r","l","d">>,
    <<"h","e","l","l","o","","w","o","r","l","d">>,
    <<"t","h","e"," ","e","d","r",".","","i","t"," ","w","o","r","k","s">> }

CaseExamples ==
    { SENTENCE_EXAMPLE } \cup TitleExamples \cup BoundaryExamples \cup PunctuatedExamples
    \cup WhitespaceExamples

CaseInputs ==
    {Join(ws, <<" ">>) : ws \in UNION {[1..n -> CaseWords] : n \in 1..MaxWords}}
    \cup CaseExamples

\* Most fragments concatenated into a text given to the normalizer.
MaxFrags == 3

\* Fragments the normalizer inputs are made of: vocabulary keys in several
\* casings, brand-prefixed tokens that are and are not keys, and the
\* characters the pattern treats specially.
NormFrags == {
    <<"e","d","r">>, <<"E","D","R">>, <<"a","o","p","s">>, <<"s","d","-","w","a","n">>, <<"v","m","s">>,
    <<"f","o","r","t","i","g","a","t","e">>, <<"F","O","R","T","I","W","E","B">>, <<"F","o","r","t","i","X","y","z">>,
    <<"(">>, <<")">>, <<"?">>, <<"-">>, <<" ">>, <<"2">> }

\* The canonical display forms of the vocabulary table.
CanonicalForms == {ShorthandTable[i][2] : i \in DOMAIN ShorthandTable}

\* Keys with a digit, wrapped in punctuation, the two-word key, and keys
\* separated by a tab.
KeyExamples == {
    <<"e","c","2">>, <<"(","s","3",")">>, <<"[","e","d","r","]",",">>,
    <<"z","e","r","o"," ","t","r","u","s","t">>,
    <<"u","s","e"," ","h","y","p","e","r","-","v","?">>,
    <<"e","d","r","\t","a","o","p","s","\n">> }

NormInputs ==
    {Concat(fs) : fs \in UNION {[1..n -> NormFrags] : n \in 1..MaxFrags}}
    \cup CanonicalForms \cup KeyExamples

-----------------------------------------------------------------------------
(* The case transformers applied to a text, then to their own output       *)

\* corrected_words of the transformer of rule r on t, joined, before the
\* repair pass.
WordPass(r, t) ==
    Join(IF r = CAPITAL THEN CapitalWords(t)
         ELSE IF r = TITLE THEN TitleWords(t)
         ELSE SentenceWords(Split(t), 1, TRUE), <<" ">>)

CaseInit ==
    /\ pc = "input"
    /\ text \in CaseInputs
    /\ res = Idle /\ res2 = Idle /\ rule = Idle /\ tokens = Idle
    /\ location = Idle /\ details = Idle /\ fix = Idle
    /\ brief = Idle /\ hybrid = FALSE /\ idx = 0 /\ results = <<>> /\ ai = Idle

CaseFrame ==
    UNCHANGED <<text, tokens, location, details, fix, brief, hybrid, idx, results, ai>>

ApplyCapital ==
    /\ pc = "input"
    /\ rule' = CAPITAL
    /\ res' = validate_capital_case(text)
    /\ pc' = "once"
    /\ UNCHANGED res2 /\ CaseFrame

ApplyTitle ==
    /\ pc = "input"
    /\ rule' = TITLE
    /\ res' = validate_title_case(text)
    /\ pc' = "once"
    /\ UNCHANGED res2 /\ CaseFrame

ApplySentence ==
    /\ pc = "input"
    /\ rule' = SENTENCE
    /\ res' = validate_sentence_case(text)
    /\ pc' = "once"
    /\ UNCHANGED res2 /\ CaseFrame

\* The same transformer applied to its own corrected text.
ReapplyCapital ==
    /\ pc = "once" /\ rule = CAPITAL
    /\ res2' = validate_capital_case(res[2])
    /\ pc' = "twice"
    /\ UNCHANGED <<res, rule>> /\ CaseFrame

ReapplyTitle ==
    /\ pc = "once" /\ rule = TITLE
    /\ res2' = validate_title_case(res[2])
    /\ pc' = "twice"
    /\ UNCHANGED <<res, rule>> /\ CaseFrame

ReapplySentence ==
    /\ pc = "once" /\ rule = SENTENCE
    /\ res2' = validate_sentence_case(res[2])
    /\ pc' = "twice"
    /\ UNCHANGED <<res, rule>> /\ CaseFrame

CaseNext ==
    \/ ApplyCapital \/ ApplyTitle \/ ApplySentence
    \/ ReapplyCapital \/ ReapplyTitle \/ ReapplySentence

SpecCase == CaseInit /\ [][CaseNext]_vars

-----------------------------------------------------------------------------
(* The normalizer applied to a text, then to its own output                *)

NormInit ==
    /\ pc = "input"
    /\ text \in NormInputs
    /\ res = Idle /\ res2 = Idle /\ rule = Idle /\ tokens = Idle
    /\ location = Idle /\ details = Idle /\ fix = Idle
    /\ brief = Idle /\ hybrid = FALSE /\ idx = 0 /\ results = <<>> /\ ai = Idle

NormFrame ==
    UNCHANGED <<text, rule, location, details, fix, brief, hybrid, idx, results, ai>>

Normalize ==
    /\ pc = "input"
    /\ res' = normalize_fortinet_shorthands(text)
    /\ tokens' = ReplaceCalls(text)
    /\ pc' = "once"
    /\ UNCHANGED res2 /\ NormFrame

Renormalize ==
    /\ pc = "once"
    /\ res2' = normalize_fortinet_shorthands(res)
    /\ pc' = "twice"
    /\ UNCHANGED <<res, tokens>> /\ NormFrame

NormNext == Normalize \/ Renormalize

SpecNorm == NormInit /\ [][NormNext]_vars

-----------------------------------------------------------------------------
(* _extract_fix_detail applied to an original text and a corrected text    *)

\* Longest generated text, in words, given to the fix-diff.
MaxDiffWords == 2

DiffWords == { <<"e","d","r">>, <<"E","D","R">>, <<"V","p","n","s">> }

\* Texts with internal, leading and trailing whitespace, with surrounding
\* quote characters, long enough for more than MAX_SHOWN edits, and with a
\* last word that ends in three periods.
DiffSpecials == {
    <<"e","d","r"," "," ","E","D","R">>, <<" ","e","d","r">>, <<"e","d","r"," ">>, <<"\"","e","d","r","\""," ","E","D","R">>, <<"'","e","d","r","'">>,
    <<"a"," ","b"," ","c"," ","d"," ","e">>, <<"A"," ","B"," ","C"," ","D"," ","E">>, <<"a"," ","b"," ","c"," ","d">>,
    <<"A"," ","B"," ","C"," ","d">>,
    <<"l","e","a","r","n"," ","M","o","r","e",".",".",".">>, <<"L","e","a","r","n"," ","m","o","r","e",".",".",".">>,
    <<"a","\t","b">>, <<"e","d","r","\n">>, <<"","e","d","r","">> }

DiffTexts ==
    {Join(ws, <<" ">>) : ws \in UNION {[1..n -> DiffWords] : n \in 0..MaxDiffWords}}
    \cup DiffSpecials

\* The corrected text inside details == Quoted(corrected).
Unquoted(d) == SubSeq(d, 2, Len(d) - 1)

DiffInit ==
    /\ pc = "input"
    /\ location \in DiffTexts
    /\ details \in {Quoted(y) : y \in DiffTexts}
    /\ fix = Idle
    /\ text = Idle /\ res = Idle /\ res2 = Idle /\ rule = Idle /\ tokens = Idle
    /\ brief = Idle /\ hybrid = FALSE /\ idx = 0 /\ results = <<>> /\ ai = Idle

ExtractFixDetail ==
    /\ pc = "input"
    /\ fix' = extract_fix_detail(location, details)
    /\ pc' = "done"
    /\ UNCHANGED <<text, res, res2, rule, tokens, location, details,
                   brief, hybrid, idx, results, ai>>

DiffNext == ExtractFixDetail

SpecDiff == DiffInit /\ [][DiffNext]_vars

-----------------------------------------------------------------------------
(* review_brief                                                            *)

\* Most headers, FAQ entries and navigation tabs of a brief.
MaxHeaders == 2
MaxFaqs    == 2
MaxTabs    == 2

\* Field texts: already correct under every rule, needing a correction,
\* correct up to a trailing blank, and empty.
FieldTexts == << <<"F","o","r","t","i","G","a","t","e"," ","E","D","R">>, <<"t","h","e"," ","e","d","r"," ","t","e","s","t">>, <<"H","e","l","l","o"," ">>, <<>> >>

\* The j-th field of a brief takes the texts of FieldTexts in rotation, so
\* that neighbouring fields carry different texts.
TextOf(j) == FieldTexts[((j - 1) % Len(FieldTexts)) + 1]

\* header['level']: the three levels both extractors produce, and a level
\* none of the branches of the header loop tests for.
Levels == <<"H2", "H3", "H4", "H5">>

\* n header levels starting at Levels[first] and advancing by stride: runs of
\* one level (stride 0) and changing levels (stride 1).
LevelRun(n, first, stride) ==
    [i \in 1..n |-> Levels[((first - 1 + stride * (i - 1)) % Len(Levels)) + 1]]

\* brief_data with the given header levels and numbers of FAQ entries and
\* tabs.  The texts rotate from base on; base also decides whether the FAQ
\* header and the CTA text are present, in each of the four combinations.
MakeBrief(base, levels, nfaqs, ntabs) ==
    [meta_title       |-> TextOf(base + 1),
     meta_description |-> TextOf(base + 2),
     h1               |-> TextOf(base + 3),
     header_caption   |-> TextOf(base + 4),
     headers          |-> [i \in DOMAIN levels |->
                              [level |-> levels[i], text |-> TextOf(base + 4 + i)]],
     faqs             |-> [header    |-> IF base < 2 THEN FieldTexts[base + 1] ELSE <<>>,
                           questions |-> [i \in 1..nfaqs |->
                              [question |-> TextOf(base + 2 * i),
                               answer   |-> TextOf(base + 2 * i + 1)]]],
     product_nav      |-> [tabs |-> [i \in 1..ntabs |-> [text |-> TextOf(base + i)]]],
     cta              |-> [text |-> IF base % 2 = 0 THEN FieldTexts[base + 1] ELSE <<>>]]

Briefs ==
    {MakeBrief(base, LevelRun(n, first, stride), nf, nt) :
        base \in 0..(Len(FieldTexts) - 1),
        n \in 0..MaxHeaders, first \in DOMAIN Levels, stride \in 0..1,
        nf \in 0..MaxFaqs, nt \in 0..MaxTabs}

\* How the external service answers during a run: the reply it gives to a
\* casing prompt, a failing call (caught inside OpenAIValidator), or an
\* exception escaping the hybrid validator; and the unknown terms it reports.
AIBehaviours ==
    {[kind |-> k, unknown |-> <<>>] :
        k \in {"no_change", "echo", "quoted", "single_quoted", "recased",
               "error", "raise"}}
    \cup {[kind |-> "other", unknown |-> <<<<"X","Y","Z">>>>]}

\* d.get(key, default)
Get(d, key, default) == IF key \in DOMAIN d THEN d[key] ELSE default

\* The empty dict, the default of the nested .get calls.
EmptyDict == <<>>

\* The parts of brief_data as review_brief reads them.
Headers(b)   == Get(b, "headers", <<>>)
Faqs(b)      == Get(b, "faqs", EmptyDict)
FaqHeader(b) == Get(Faqs(b), "header", <<>>)
Questions(b) == Get(Faqs(b), "questions", <<>>)
Tabs(b)      == Get(Get(b, "product_nav", EmptyDict), "tabs", <<>>)
CtaText(b)   == Get(Get(b, "cta", EmptyDict), "text", <<>>)

\* Resolve with the CTA text validated whether or not it is empty.
RECURSIVE ResolveCtaAlways(_, _, _)
ResolveCtaAlways(b, p, i) ==
    IF p = "headers"
        THEN (IF i <= Len(Headers(b)) THEN <<p, i>> ELSE ResolveCtaAlways(b, "faq_header", 0))
    ELSE IF p = "faq_header"
        THEN (IF FaqHeader(b) # <<>> THEN <<p, 0>> ELSE ResolveCtaAlways(b, "faq_question", 1))
    ELSE IF p = "faq_question"
        THEN (IF i <= Len(Questions(b)) THEN <<p, i>> ELSE ResolveCtaAlways(b, "tabs", 1))
    ELSE IF p = "tabs"
        THEN (IF i <= Len(Tabs(b)) THEN <<p, i>> ELSE <<"cta", 0>>)
    ELSE <<p, i>>

\* Where control is, from statement p (loop index i) on, skipping the loops
\* that are exhausted and the fields review_brief tests for emptiness.
RECURSIVE Resolve(_, _, _)
Resolve(b, p, i) ==
    IF p = "headers"
        THEN (IF i <= Len(Headers(b)) THEN <<p, i>> ELSE Resolve(b, "faq_header", 0))
    ELSE IF p = "faq_header"
        THEN (IF FaqHeader(b) # <<>> THEN <<p, 0>> ELSE Resolve(b, "faq_question", 1))
    ELSE IF p = "faq_question"
        THEN (IF i <= Len(Questions(b)) THEN <<p, i>> ELSE Resolve(b, "tabs", 1))
    ELSE IF p = "tabs"
        THEN (IF i <= Len(Tabs(b)) THEN <<p, i>> ELSE Resolve(b, "cta", 0))
    ELSE IF p = "cta"
        THEN (IF CtaText(b) # <<>> THEN <<p, 0>> ELSE <<"return", 0>>)
    ELSE <<p, i>>

Init ==
    /\ pc = "call"
    /\ brief \in Briefs
    /\ hybrid \in BOOLEAN
    /\ ai \in (IF hybrid THEN AIBehaviours ELSE {Idle})
    /\ idx = 0
    /\ results = <<>>
    /\ text = Idle /\ res = Idle /\ res2 = Idle /\ rule = Idle /\ tokens = Idle
    /\ location = Idle /\ details = Idle /\ fix = Idle

ReviewFrame ==
    UNCHANGED <<text, res, res2, rule, tokens, location, details, fix, brief, hybrid, ai>>

\* One _validate_<field> call appended v; control moves to statement p.
Goto(v, target) ==
    /\ results' = Append(results, v)
    /\ pc' = target[1]
    /\ idx' = target[2]
    /\ ReviewFrame

Step(v, p, i) == Goto(v, Resolve(brief, p, i))

\* review_brief(brief_data) is entered: self.results = [].
ReviewBrief ==
    /\ pc = "call"
    /\ results' = <<>>
    /\ pc' = "meta_title"
    /\ UNCHANGED idx /\ ReviewFrame

ValidateMetaTitle ==
    /\ pc = "meta_title"
    /\ Step(validate_meta_title(hybrid, ai, Get(brief, "meta_title", <<>>)),
            "meta_description", 0)

ValidateMetaDescription ==
    /\ pc = "meta_description"
    /\ Step(validate_meta_description(hybrid, ai, Get(brief, "meta_description", <<>>)),
            "h1", 0)

ValidateH1 ==
    /\ pc = "h1"
    /\ Step(validate_h1(Get(brief, "h1", <<>>)), "header_caption", 0)

ValidateHeaderCaption ==
    /\ pc = "header_caption"
    /\ Step(validate_header_caption(Get(brief, "header_caption", <<>>)), "headers", 1)

\* header['level'] == level and header['text'] are both read without raising.
HeaderIs(level) ==
    /\ pc = "headers"
    /\ {"level", "text"} \subseteq DOMAIN Headers(brief)[idx]
    /\ Headers(brief)[idx].level = level

ValidateH2 ==
    /\ HeaderIs("H2")
    /\ Step(validate_h2(Headers(brief)[idx].text), "headers", idx + 1)

ValidateH3 ==
    /\ HeaderIs("H3")
    /\ Step(validate_h3(Headers(brief)[idx].text), "headers", idx + 1)

ValidateH4 ==
    /\ HeaderIs("H4")
    /\ Step(validate_h4(Headers(brief)[idx].text), "headers", idx + 1)

\* The header's level is none of 'H2', 'H3', 'H4': no branch of the
\* if/elif/elif is taken, header['text'] is not read, and the loop goes on.
SkipHeader ==
    /\ pc = "headers"
    /\ "level" \in DOMAIN Headers(brief)[idx]
    /\ Headers(brief)[idx].level \notin {"H2", "H3", "H4"}
    /\ pc' = Resolve(brief, "headers", idx + 1)[1]
    /\ idx' = Resolve(brief, "headers", idx + 1)[2]
    /\ UNCHANGED results /\ ReviewFrame

ValidateFaqHeader ==
    /\ pc = "faq_header"
    /\ Step(validate_faq_header(FaqHeader(brief)), "faq_question", 1)

ValidateFaqQuestion ==
    /\ pc = "faq_question"
    /\ "question" \in DOMAIN Questions(brief)[idx]
    /\ Step(validate_faq_question(Questions(brief)[idx].question), "faq_answer", idx)

ValidateFaqAnswer ==
    /\ pc = "faq_answer"
    /\ "answer" \in DOMAIN Questions(brief)[idx]
    /\ Step(validate_faq_answer(Questions(brief)[idx].answer), "faq_question", idx + 1)

ValidateProductNavTab ==
    /\ pc = "tabs"
    /\ "text" \in DOMAIN Tabs(brief)[idx]
    /\ Step(validate_product_nav_tab(hybrid, ai, Tabs(brief)[idx].text),
            "tabs", idx + 1)

ValidateCtaText ==
    /\ pc = "cta"
    /\ Step(validate_cta_text(CtaText(brief)), "return", 0)

Next ==
    \/ ReviewBrief
    \/ ValidateMetaTitle \/ ValidateMetaDescription
    \/ ValidateH1 \/ ValidateHeaderCaption
    \/ ValidateH2 \/ ValidateH3 \/ ValidateH4 \/ SkipHeader
    \/ ValidateFaqHeader \/ ValidateFaqQuestion \/ ValidateFaqAnswer
    \/ ValidateProductNavTab
    \/ ValidateCtaText

Spec == Init /\ [][Next]_vars

-----------------------------------------------------------------------------
(* The hybrid methods applied to a text and a rule-based result            *)

\* Texts given to the hybrid methods.
HybridTexts == {
    <<"F","o","r","t","i","G","a","t","e"," ","E","D","R">>, <<"t","h","e"," ","e","d","r">>,
    <<"H","e","l","l","o"," ">>, <<>> }

\* rule_based_result: any pair of a flag and a corrected text.
RuleBasedResults ==
    BOOLEAN \X (HybridTexts \cup { <<"T","h","e"," ","E","D","R">>, <<"H","e","l","l","o">> })

\* The answers of the external service with which a hybrid method returns.
ReturningBehaviours == {a \in AIBehaviours : a.kind # "raise"}

HybridInit ==
    /\ pc = "input"
    /\ text \in HybridTexts
    /\ res \in RuleBasedResults
    /\ ai \in ReturningBehaviours
    /\ hybrid = TRUE
    /\ res2 = Idle /\ rule = Idle /\ tokens = Idle
    /\ location = Idle /\ details = Idle /\ fix = Idle
    /\ brief = Idle /\ idx = 0 /\ results = <<>>

HybridFrame ==
    UNCHANGED <<text, res, tokens, location, details, fix, brief, hybrid, idx, results, ai>>

ValidateTitleCaseHybrid ==
    /\ pc = "input"
    /\ rule' = TITLE
    /\ res2' = validate_title_case_hybrid(ai, text, res)
    /\ pc' = "done"
    /\ HybridFrame

ValidateSentenceCaseHybrid ==
    /\ pc = "input"
    /\ rule' = SENTENCE
    /\ res2' = validate_sentence_case_hybrid(ai, text, res)
    /\ pc' = "done"
    /\ HybridFrame

HybridNext == ValidateTitleCaseHybrid \/ ValidateSentenceCaseHybrid

SpecHybrid == HybridInit /\ [][HybridNext]_vars

-----------------------------------------------------------------------------
(* The functions of the core called on arbitrary texts                     *)

\* Texts with nothing but whitespace, words of punctuation only, words whose
\* alphanumeric core is empty, and vocabulary tokens wrapped in punctuation.
OddTexts == {
    <<>>,
    <<" ">>,
    <<" "," ">>,
    <<"\t">>,
    <<"\n"," ">>,
    <<"","">>,
    <<"&">>,
    <<".",".",".">>,
    <<"-">>,
    <<"(",")">>,
    <<"?","!">>,
    <<"(","e","d","r",")">>,
    <<"\"","e","d","r","\"",".">>,
    <<"[","v","p","n","]","?">>,
    <<"'","E","D","R","'",".">>,
    <<"H","e","l","l","o"," ","&"," ","W","o","r","l","d",".">>,
    <<"a"," ","-"," ","B">>,
    <<"(","F","o","r","t","i","G","a","t","e",")">>,
    <<"V","p","n","s"," ","-">> }

\* The functions of the core that are neither a transformer.
NORMALIZER == "normalize_fortinet_shorthands"
REPAIR     == "fix_acronym_plurals_rule_based"
FIX_DIFF   == "extract_fix_detail"

\* The outcome of a call: the exceptions it raises, and the value it returns
\* when it raises none.
Outcome(raises, value) ==
    [raises |-> raises, value |-> IF raises = {} THEN value ELSE Idle]

CoreInit ==
    /\ pc = "input"
    /\ text \in OddTexts
    /\ details \in {Quoted(y) : y \in OddTexts}
    /\ res = Idle /\ res2 = Idle /\ rule = Idle /\ tokens = Idle
    /\ location = Idle /\ fix = Idle
    /\ brief = Idle /\ hybrid = FALSE /\ idx = 0 /\ results = <<>> /\ ai = Idle

\* A call of function f returns or raises: res is its outcome.
Call(f, outcome) ==
    /\ pc = "input"
    /\ rule' = f
    /\ res' = outcome
    /\ pc' = "done"
    /\ UNCHANGED <<text, res2, tokens, location, details, fix, brief, hybrid,
                   idx, results, ai>>

CallNormalize ==
    Call(NORMALIZER, Outcome({}, normalize_fortinet_shorthands(text)))

CallCapital ==
    Call(CAPITAL, Outcome(capital_case_raises(text), validate_capital_case(text)))

CallTitle ==
    Call(TITLE, Outcome(title_case_raises(text), validate_title_case(text)))

CallSentence ==
    Call(SENTENCE, Outcome(sentence_case_raises(text), validate_sentence_case(text)))

CallRepair ==
    Call(REPAIR, Outcome({}, fix_acronym_plurals_rule_based(text)))

\* _extract_fix_detail(result) with result.location = text.
CallFixDetail ==
    Call(FIX_DIFF, Outcome(fix_detail_raises(text, details),
                           extract_fix_detail(text, details).ret))

CoreNext ==
    \/ CallNormalize \/ CallCapital \/ CallTitle \/ CallSentence
    \/ CallRepair \/ CallFixDetail

SpecCore == CoreInit /\ [][CoreNext]_vars

-----------------------------------------------------------------------------
(* review_brief on a brief that lacks a key                                *)

\* The dict d without key.
Without(d, key) == [k \in DOMAIN d \ {key} |-> d[k]]

\* Briefs with two headers, one FAQ entry, one tab, an FAQ header and a CTA.
FullBriefs ==
    {MakeBrief(0, LevelRun(2, first, 1), 1, 1) : first \in DOMAIN Levels}

\* The top-level text fields of a brief.
TextFields == {"meta_title", "meta_description", "h1", "header_caption"}

\* The optional parts of a brief, at the top level.
Containers == {"headers", "faqs", "product_nav", "cta"}

\* b with one key removed: a top-level text field, a container, or a key of
\* a header, of the FAQ entry or of the tab.
LackingOne(b) ==
    {Without(b, k) : k \in TextFields \cup Containers}
    \cup {[b EXCEPT !.headers[i] = Without(@, k)] :
             i \in DOMAIN b.headers, k \in {"level", "text"}}
    \cup {[b EXCEPT !.faqs.questions[1] = Without(@, k)] : k \in {"question", "answer"}}
    \cup {[b EXCEPT !.product_nav.tabs[1] = Without(@, "text")]}

MissingInit ==
    /\ pc = "call"
    /\ brief \in UNION {LackingOne(b) : b \in FullBriefs}
    /\ hybrid \in BOOLEAN
    /\ ai \in (IF hybrid THEN AIBehaviours ELSE {Idle})
    /\ idx = 0
    /\ results = <<>>
    /\ text = Idle /\ res = Idle /\ res2 = Idle /\ rule = Idle /\ tokens = Idle
    /\ location = Idle /\ details = Idle /\ fix = Idle

\* The subscript review_brief evaluates next names a key its dict lacks.
KeyMissing ==
    \/ /\ pc = "headers"
       /\ IF "level" \in DOMAIN Headers(brief)[idx]
          THEN /\ Headers(brief)[idx].level \in {"H2", "H3", "H4"}
               /\ "text" \notin DOMAIN Headers(brief)[idx]
          ELSE TRUE
    \/ pc = "faq_question" /\ "question" \notin DOMAIN Questions(brief)[idx]
    \/ pc = "faq_answer" /\ "answer" \notin DOMAIN Questions(brief)[idx]
    \/ pc = "tabs" /\ "text" \notin DOMAIN Tabs(brief)[idx]

\* The KeyError of the subscript leaves review_brief: nothing is returned.
RaiseKeyError ==
    /\ KeyMissing
    /\ pc' = "KeyError"
    /\ UNCHANGED <<idx, results>> /\ ReviewFrame

MissingNext == Next \/ RaiseKeyError

SpecMissing == MissingInit /\ [][MissingNext]_vars

-----------------------------------------------------------------------------
(* review_brief called several times on one reviewer                       *)

\* The number of further calls after the first.
MaxCalls == 2

\* The briefs a caller passes: the first and the last base text set (with
\* and without FAQ header and CTA), with none, one or two headers, FAQ
\* entries and tabs; the headers of the first start at H2, those of the
\* last at H4.
CallBriefs ==
    {MakeBrief(base, LevelRun(n, 1 + 2 * (base % 2), 1), n, n) :
        base \in {0, Len(FieldTexts) - 1}, n \in 0..MaxHeaders}

\* self.results = [] with the list `old` still referenced by the caller of
\* an earlier review_brief: the attribute is bound to a new empty list, and
\* the list it was bound to keeps its items.
RebindInPlace(old) == [current |-> <<>>, earlier |-> <<>>]

Rebind(old) == [current |-> <<>>, earlier |-> old]

CallsInit ==
    /\ pc = "call"
    /\ brief \in CallBriefs
    /\ hybrid \in BOOLEAN
    /\ ai \in (IF hybrid THEN AIBehaviours ELSE {Idle})
    /\ idx = 0
    /\ results = <<>>
    /\ tokens = <<>>
    /\ text = Idle /\ res = Idle /\ res2 = Idle /\ rule = Idle
    /\ location = Idle /\ details = Idle /\ fix = Idle

\* review_brief returned self.results; the caller keeps the list, together
\* with the brief it passed, and calls review_brief on the same reviewer
\* with another brief, which is entered: self.results = [].  Each entry of
\* tokens is a list an earlier call returned: the brief of that call as the
\* caller passed it, the items of the list when the call returned, and the
\* items of the list now.
CallAgain ==
    /\ pc = "return"
    /\ Len(tokens) < MaxCalls
    /\ \E b \in CallBriefs :
          /\ b # brief
          /\ brief' = b
    /\ tokens' = Append(tokens, [brief     |-> brief,
                                 at_return |-> results,
                                 now       |-> Rebind(results).earlier])
    /\ results' = Rebind(results).current
    /\ pc' = "meta_title"
    /\ idx' = 0
    /\ UNCHANGED <<text, res, res2, rule, location, details, fix, hybrid, ai>>

CallsNext == Next \/ CallAgain

SpecCalls == CallsInit /\ [][CallsNext]_vars

-----------------------------------------------------------------------------
(* generate_failed_items_table and _get_category                           *)

\* sub in s, for two str.
Contains(s, sub) ==
    \E i \in 0..(Len(s) - Len(sub)) : SubSeq(s, i + 1, i + Len(sub)) = sub

\* _get_category(use_case), for a use case given as text.
get_category(use_case) ==
    IF Contains(use_case, <<"M","e","t","a">>) THEN "Metadata"
    ELSE IF \E h \in {<<"H","1">>, <<"H","2">>, <<"H","3">>, <<"H","4">>,
                      <<"H","e","a","d","e","r">>} : Contains(use_case, h)
        THEN "Headers"
    ELSE IF Contains(use_case, <<"F","A","Q">>) THEN "FAQ"
    ELSE IF Contains(use_case, <<"C","T","A">>) THEN "CTA"
    ELSE IF \/ Contains(use_case, <<"P","r","o","d","u","c","t">>)
            \/ Contains(use_case, <<"N","a","v">>)
            \/ Contains(use_case, <<"T","a","b">>)
        THEN "Navigation"
    ELSE "Content"

\* The row dict of a result that is not skipped: the keys AI and Unknown
\* are present only for a result with ai_validated and a non-empty
\* unknown_terms list.
Row(result, fix_detail) ==
    [Category    |-> get_category(result.use_case),
     Type        |-> result.use_case,
     Current     |-> result.location,
     Fix         |-> fix_detail,
     Recommended |-> StripChars(StripChars(result.details, {"\""}), {"'"})]
    @@ (IF result.ai_validated THEN [AI |-> "v"] ELSE <<>>)
    @@ (IF result.unknown_terms # None /\ result.unknown_terms # <<>>
        THEN [Unknown |-> Join(result.unknown_terms, <<",", " ">>)]
        ELSE <<>>)

\* Variant: the fix string is not looked at before the row is built.
table_rows_unchecked(result) ==
    LET current_text     == Strip(result.location)
        recommended_text == StripQuotes(result.details)
    IN IF result.status = ACCEPTED THEN <<>>
       ELSE IF current_text = <<>> \/ recommended_text = <<>> THEN <<>>
       ELSE IF current_text = recommended_text THEN <<>>
       ELSE <<Row(result, extract_fix_detail(result.location, result.details).ret)>>

\* One iteration of the loop over validation_results: the rows appended to
\* failed_items for result, none when an `if` skips it.
table_rows(result) ==
    LET current_text     == Strip(result.location)
        recommended_text == StripQuotes(result.details)
        fix_detail       == extract_fix_detail(result.location, result.details).ret
    IN IF result.status = ACCEPTED THEN <<>>
       ELSE IF current_text = <<>> \/ recommended_text = <<>> THEN <<>>
       ELSE IF current_text = recommended_text THEN <<>>
       ELSE IF fix_detail \in {NO_CHANGE_NEEDED, NO_CHANGES_DETECTED} THEN <<>>
       ELSE <<Row(result, fix_detail)>>

\* Longest validation_results list given to the table.
MaxRows == 2

T_EDR == <<"e","d","r">>
T_UPPER_EDR == <<"E","D","R">>

\* The location and details of the results given to the table: a replaced
\* word; a text equal to its correction; texts that differ in internal
\* whitespace only; an empty location; an empty correction; a text equal to
\* its correction once trimmed and stripped of quotes; five replaced words;
\* a removed word.
TablePairs ==
    << <<T_EDR, Quoted(T_UPPER_EDR)>>,
       <<T_UPPER_EDR, Quoted(T_UPPER_EDR)>>,
       <<T_EDR \o <<" ", " ">> \o T_UPPER_EDR, Quoted(T_EDR \o <<" ">> \o T_UPPER_EDR)>>,
       <<<<>>, Quoted(T_UPPER_EDR)>>,
       <<T_EDR, Quoted(<<>>)>>,
       <<<<" ">> \o T_EDR, <<"'">> \o T_EDR \o <<"'", " ">>>>,
       <<<<"a"," ","b"," ","c"," ","d"," ","e">>, Quoted(<<"A"," ","B"," ","C"," ","D"," ","E">>)>>,
       <<T_EDR \o <<" ">> \o T_UPPER_EDR, Quoted(T_EDR)>> >>

\* The use case of the results, one per pair.
TableUseCases ==
    << <<"M","e","t","a"," ","T","i","t","l","e">>, <<"H","1">>,
       <<"F","A","Q"," ","A","n","s","w","e","r">>, <<"C","T","A"," ","T","e","x","t">>,
       <<"P","r","o","d","u","c","t"," ","N","a","v"," ","T","a","b">>,
       <<"H","e","a","d","e","r"," ","C","a","p","t","i","o","n">>,
       <<"B","o","d","y">>, <<"H","3">> >>

\* The results given to the table: rule-based ones and ones that carry an
\* external opinion with unknown terms.
TableResults ==
    {[use_case      |-> TableUseCases[p],
      criterion     |-> SENTENCE,
      location      |-> TablePairs[p][1],
      status        |-> s,
      details       |-> TablePairs[p][2],
      category      |-> "Case",
      ai_validated  |-> (p % 2 = 0),
      ai_result     |-> <<>>,
      unknown_terms |-> IF p % 2 = 0 THEN <<T_UPPER_EDR, <<"X","Y","Z">>>> ELSE None] :
        p \in DOMAIN TablePairs, s \in {ACCEPTED, REJECTED}}

TableInit ==
    /\ pc = "loop"
    /\ results \in UNION {[1..n -> TableResults] : n \in 0..MaxRows}
    /\ idx = 1
    /\ tokens = <<>>
    /\ text = Idle /\ res = Idle /\ res2 = Idle /\ rule = Idle
    /\ location = Idle /\ details = Idle /\ fix = Idle
    /\ brief = Idle /\ hybrid = FALSE /\ ai = Idle

TableFrame ==
    UNCHANGED <<text, res, res2, rule, location, details, fix, brief, hybrid, results, ai>>

\* for result in validation_results: one iteration, on validation_results[idx];
\* tokens is failed_items.
TableIteration ==
    /\ pc = "loop"
    /\ idx <= Len(results)
    /\ tokens' = tokens \o table_rows(results[idx])
    /\ idx' = idx + 1
    /\ UNCHANGED pc /\ TableFrame

\* return pd.DataFrame(failed_items)
TableReturn ==
    /\ pc = "loop"
    /\ idx > Len(results)
    /\ pc' = "done"
    /\ UNCHANGED <<idx, tokens>> /\ TableFrame

TableNext == TableIteration \/ TableReturn

SpecTable == TableInit /\ [][TableNext]_vars

-----------------------------------------------------------------------------
(* One _validate_<field> method applied to a field text                    *)

\* Longest field text, in words.
MaxFieldWords == 2

\* Words of the field texts: vocabulary keys and their canonical display
\* forms (mixed-case and all-uppercase), and ordinary words.
FieldWords == {
    <<"d","d","o","s">>, <<"D","D","o","S">>, <<"I","o","T">>, <<"i","a","c">>,
    <<"A","p","p","S","e","c">>, <<"v","m","w","a","r","e">>, <<"S","D","-","W","A","N">>,
    <<"e","d","r">>, <<"a","t","t","a","c","k">>, <<"A","t","t","a","c","k">> }

\* The field texts: the words joined by one space, texts with leading or
\* trailing whitespace, and texts that end or begin with a quoted word.
FieldInputs ==
    {Join(ws, <<" ">>) : ws \in UNION {[1..n -> FieldWords] : n \in 1..MaxFieldWords}}
    \cup {<<"A","t","t","a","c","k"," ">>, <<" ","E","D","R">>, <<"e","d","r"," ">>,
          <<"H","e","l","l","o"," ","\"","w","o","r","l","d","\"">>,
          <<"'","E","D","R","'"," ","a","t","t","a","c","k">>,
          <<"A","t","t","a","c","k","\t">>, <<"D","D","o","S","\n","A","t","t","a","c","k">>}

FieldInit ==
    /\ pc = "field"
    /\ text \in FieldInputs
    /\ results = <<>>
    /\ hybrid \in BOOLEAN
    /\ ai \in (IF hybrid THEN AIBehaviours ELSE {Idle})
    /\ idx = 0
    /\ res = Idle /\ res2 = Idle /\ rule = Idle /\ tokens = Idle
    /\ location = Idle /\ details = Idle /\ fix = Idle /\ brief = Idle

\* self._validate_<field>(text) appended v to self.results.
Appended(v) ==
    /\ results' = Append(results, v)
    /\ pc' = "appended"
    /\ UNCHANGED <<text, res, res2, rule, tokens, location, details, fix,
                   brief, hybrid, idx, ai>>

FieldMetaTitle ==
    /\ pc = "field"
    /\ Appended(validate_meta_title(hybrid, ai, text))

FieldMetaDescription ==
    /\ pc = "field"
    /\ Appended(validate_meta_description(hybrid, ai, text))

FieldH1 ==
    /\ pc = "field"
    /\ Appended(validate_h1(text))

FieldHeaderCaption ==
    /\ pc = "field"
    /\ Appended(validate_header_caption(text))

FieldH2 ==
    /\ pc = "field"
    /\ Appended(validate_h2(text))

FieldH3 ==
    /\ pc = "field"
    /\ Appended(validate_h3(text))

FieldH4 ==
    /\ pc = "field"
    /\ Appended(validate_h4(text))

FieldFaqHeader ==
    /\ pc = "field"
    /\ Appended(validate_faq_header(text))

FieldFaqQuestion ==
    /\ pc = "field"
    /\ Appended(validate_faq_question(text))

FieldFaqAnswer ==
    /\ pc = "field"
    /\ Appended(validate_faq_answer(text))

FieldProductNavTab ==
    /\ pc = "field"
    /\ Appended(validate_product_nav_tab(hybrid, ai, text))

FieldCtaText ==
    /\ pc = "field"
    /\ Appended(validate_cta_text(text))

FieldNext ==
    \/ FieldMetaTitle \/ FieldMetaDescription \/ FieldH1 \/ FieldHeaderCaption
    \/ FieldH2 \/ FieldH3 \/ FieldH4 \/ FieldFaqHeader \/ FieldFaqQuestion
    \/ FieldFaqAnswer \/ FieldProductNavTab \/ FieldCtaText

SpecField == FieldInit /\ [][FieldNext]_vars

-----------------------------------------------------------------------------
(* Properties of the case transformers (checked under SpecCase)            *)

\* C1: idempotence of the case transformers: when a transformer returned
\* (p, c) on a text, the same transformer applied to c returns (True, c).
C1_Idempotent == pc = "twice" => res2 = <<TRUE, res[2]>>

\* A single whitespace-free token whose lowercase form begins with 'forti'.
IsBrandToken(t) ==
    /\ \A i \in DOMAIN t : t[i] \notin Whitespace
    /\ Len(t) >= Len(FORTI)
    /\ Lower(SubSeq(t, 1, Len(FORTI))) = FORTI

\* C2: brand-prefix invariance: on a text that is one brand-prefixed token,
\* hyphens and attached punctuation included, each transformer returns
\* (True, text unchanged), the repair pass included.
C2_BrandPrefixInvariance ==
    (pc = "once" /\ IsBrandToken(text)) => res = <<TRUE, text>>

\* C7: the sentence-case boundary example as the specification states it:
\* the corrected text is "Fortinet offers EDR. It also offers XDR.".
C7_SentenceExample ==
    (pc = "once" /\ rule = SENTENCE /\ text = SENTENCE_EXAMPLE)
        => res[2] = <<"F","o","r","t","i","n","e","t"," ","o","f","f","e","r","s"," ","E","D","R","."," ","I","t"," ","a","l","s","o"," ","o","f","f","e","r","s"," ","X","D","R",".">>

\* C7 as amended: the brand token keeps the casing it was written with;
\* the corrected text is "fortinet offers EDR. It also offers XDR." and the
\* input is reported as not already correct.
C7_SentenceExampleAmended ==
    (pc = "once" /\ rule = SENTENCE /\ text = SENTENCE_EXAMPLE)
        => res = <<FALSE, <<"f","o","r","t","i","n","e","t"," ","o","f","f","e","r","s"," ","E","D","R","."," ","I","t"," ","a","l","s","o"," ","o","f","f","e","r","s"," ","X","D","R",".">>>>

C7_Witness == pc = "once" /\ rule = SENTENCE /\ text = SENTENCE_EXAMPLE

\* The mis-cased plural acronyms the repair pass is to remove.
MiscasedPlurals == {
    <<"V","p","n","s">>, <<"A","p","i","s">>, <<"U","r","l","s">>, <<"S","d","k","s">>, <<"V","m","s">>, <<"I","p","s">>,
    <<"I","d","s">>, <<"F","a","q","s">>, <<"P","d","f","s">>, <<"C","s","v","s">>, <<"S","l","a","s">>, <<"K","p","i","s">> }

\* The all-caps-plus-'s' form of a mis-cased plural: 'Vpns' -> 'VPNs'.
AllCapsPlural(w) == Upper(SubSeq(w, 1, Len(w) - 1)) \o <<w[Len(w)]>>

\* w occurs in s at 1-based position p as a whole word.
OccursAsWord(s, p, w) ==
    /\ p + Len(w) - 1 <= Len(s)
    /\ SubSeq(s, p, p + Len(w) - 1) = w
    /\ (p = 1 \/ ~IsWordChar(s[p - 1]))
    /\ (p + Len(w) > Len(s) \/ ~IsWordChar(s[p + Len(w)]))

\* C9: plural-acronym repair: the corrected text of each transformer holds
\* none of the mis-cased plurals as a whole word, and wherever the word-level
\* pass produced one, the output has the all-caps-plus-'s' form there.
C9_PluralRepair ==
    /\ pc \in {"once", "twice"} =>
          \A w \in MiscasedPlurals : \A p \in DOMAIN res[2] :
              ~OccursAsWord(res[2], p, w)
    /\ pc = "twice" =>
          \A w \in MiscasedPlurals : \A p \in DOMAIN res2[2] :
              ~OccursAsWord(res2[2], p, w)
    /\ pc = "once" =>
          LET pre == WordPass(rule, text)
          IN \A w \in MiscasedPlurals : \A p \in DOMAIN pre :
                 OccursAsWord(pre, p, w)
                     => SubSeq(res[2], p, p + Len(w) - 1) = AllCapsPlural(w)

\* The word-level pass produced 'Vpns' and the output holds 'VPNs' there.
C9_Witness ==
    /\ pc = "once"
    /\ \E p \in DOMAIN res[2] :
          /\ OccursAsWord(WordPass(rule, text), p, <<"V","p","n","s">>)
          /\ OccursAsWord(res[2], p, <<"V","P","N","s">>)

\* The examples of the function-word rule give the stated results.
TitleExamplesHold ==
    /\ text = FIREWALL_EXAMPLE => res = <<TRUE, FIREWALL_EXAMPLE>>
    /\ text = SECURITY_EXAMPLE => res[2] = <<"S","e","c","u","r","i","t","y"," ","A","p","p","l","i","a","n","c","e"," ","v","s"," ","t","h","e"," ","C","l","o","u","d">>

\* Word i of the text is neither the first nor the last.
IsMiddle(words, i) == 1 < i /\ i < Len(words)

\* C12: Title Case function-word rule as the specification states it: the
\* two examples give the stated results; a function word that is neither
\* first nor last is output in lowercase; "vs" is output as "Vs" when first or
\* last and as "vs" otherwise.
C12_FunctionWords ==
    (pc = "once" /\ rule = TITLE) =>
        LET words == Split(text)
            out   == Split(res[2])
        IN /\ TitleExamplesHold
           /\ \A i \in DOMAIN words :
                  /\ (Lower(words[i]) \in lowercase_words /\ IsMiddle(words, i))
                        => out[i] = Lower(words[i])
                  /\ Lower(words[i]) = VS_LOWER
                        => out[i] = (IF IsMiddle(words, i) THEN VS_LOWER ELSE VS_CAPITAL)

\* The word is written entirely in upper case and has more than one letter.
IsAcronymLike(word) == IsUpper(word) /\ Len(word) > 1

\* C12 as amended: the rule applies to the function words and to "vs" unless
\* the word is written entirely in upper case with more than one letter;
\* such a word is output as written.
C12_FunctionWordsAmended ==
    (pc = "once" /\ rule = TITLE) =>
        LET words == Split(text)
            out   == Split(res[2])
        IN /\ TitleExamplesHold
           /\ \A i \in DOMAIN words :
                  /\ (Lower(words[i]) \in lowercase_words \cup {VS_LOWER}
                         /\ IsAcronymLike(words[i]))
                        => out[i] = words[i]
                  /\ (Lower(words[i]) \in lowercase_words /\ IsMiddle(words, i)
                         /\ ~IsAcronymLike(words[i]))
                        => out[i] = Lower(words[i])
                  /\ (Lower(words[i]) = VS_LOWER /\ ~IsAcronymLike(words[i]))
                        => out[i] = (IF IsMiddle(words, i) THEN VS_LOWER ELSE VS_CAPITAL)

\* Title Case ran on the second example and lowered the function word in
\* the middle of it.
C12_Witness ==
    /\ pc = "once" /\ rule = TITLE
    /\ text = SECURITY_EXAMPLE
    /\ ~res[1]
    /\ Split(res[2])[4] = <<"t","h","e">>

-----------------------------------------------------------------------------
(* Properties of the shorthand normalizer (checked under SpecNorm)         *)

\* C3: the normalizer is idempotent: normalizing its own output changes
\* nothing; and no canonical form of the table is rewritten by it.
C3_NormalizerIdempotent ==
    /\ pc = "twice" => res2 = res
    /\ (pc \in {"once", "twice"} /\ text \in CanonicalForms) => res = text

\* A text that the first pass rewrote was normalized a second time.
C3_Witness == pc = "twice" /\ res # text /\ Len(tokens) >= 1

\* The core of a token begins, case-insensitively, with 'forti'.
BeginsWithForti(core) ==
    Len(core) >= Len(FORTI) /\ Lower(SubSeq(core, 1, Len(FORTI))) = FORTI

\* C4: the brand-prefix check dominates the dictionary: a token whose core
\* begins with 'forti' is returned exactly as written, also when its
\* lowercase core is a key of the table; only a token that fails the prefix
\* check and is a key is rewritten.
C4_PrefixDominates ==
    pc \in {"once", "twice"} =>
        \A k \in DOMAIN tokens :
            /\ BeginsWithForti(tokens[k].core) => tokens[k].out = tokens[k].src
            /\ tokens[k].out # tokens[k].src =>
                   /\ ~BeginsWithForti(tokens[k].core)
                   /\ Lower(tokens[k].core) \in ShorthandKeys

\* A brand-prefixed token that is a key of the table, written otherwise than
\* its canonical form, went through replace().
C4_Witness ==
    /\ pc = "once"
    /\ \E k \in DOMAIN tokens :
          /\ BeginsWithForti(tokens[k].core)
          /\ Lower(tokens[k].core) \in ShorthandKeys
          /\ FORTINET_SHORTHANDS[Lower(tokens[k].core)] # tokens[k].core
          /\ tokens[k].out = tokens[k].src

\* The 0-based offsets at which the core clean_word lies in word as one
\* piece: the punctuation of word is then what precedes and what follows it.
CoreOffsets(word, clean_word) ==
    {a \in 0..(Len(word) - Len(clean_word)) :
        SubSeq(word, a + 1, a + Len(clean_word)) = clean_word}

\* The characters a key may be wrapped in.
WrapChars == {"(", ")", "[", "]", "?", ","}

\* C26: the shorthand normalizer rewrites every vocabulary key: a
\* whitespace-separated token of the text that is a key of the table in any
\* casing (with a digit, a hyphen, or plain), optionally wrapped in '(' ')'
\* '[' ']' '?' ',', is in the normalized text the canonical form with the
\* wrapping kept; two neighbouring tokens that spell the two-word key 'zero
\* trust' become 'Zero Trust'; and a token of letters only that is neither
\* brand-prefixed nor a key is left unchanged.
C26_EveryKeyRewritten ==
    pc = "once" =>
        LET words == Split(text)
            out   == Split(res)
        IN /\ Len(out) = Len(words)
           /\ \A i \in DOMAIN words :
                 LET core == StripChars(words[i], WrapChars)
                 IN /\ (InShorthands(Lower(core)) /\ ~IsFortiPrefixed(core))
                        => \A a \in CoreOffsets(words[i], core) :
                               out[i] = SubSeq(words[i], 1, a)
                                        \o FORTINET_SHORTHANDS[Lower(core)]
                                        \o SubSeq(words[i], a + Len(core) + 1, Len(words[i]))
                    /\ (/\ \A k \in DOMAIN words[i] : words[i][k] \in LowerSet \cup UpperSet
                        /\ ~InShorthands(Lower(words[i]))
                        /\ ~IsFortiPrefixed(words[i]))
                        => out[i] = words[i]
           /\ \A i \in 1..(Len(words) - 1) :
                 InShorthands(Lower(words[i] \o <<" ">> \o words[i + 1]))
                     => out[i] \o <<" ">> \o out[i + 1]
                            = FORTINET_SHORTHANDS[Lower(words[i] \o <<" ">> \o words[i + 1])]

-----------------------------------------------------------------------------
(* Properties of the fix-diff (checked under SpecDiff)                     *)

\* The fix-diff reported at least one edit.
SomeEdit == fix.changes # <<>> /\ fix.ret \notin {NO_CHANGE_NEEDED, NO_CHANGES_DETECTED}

\* C8: diff emptiness law: the fix-diff of (x, x), the text x as location
\* and f'"{x}"' as details, is 'No change needed' for every x, and the
\* fix-diff of (x, y) reports at least one edit whenever
\* x.strip() != y.strip().
C8_DiffEmptiness ==
    pc = "done" =>
        LET x == location
            y == Unquoted(details)
        IN /\ x = y => fix.ret = NO_CHANGE_NEEDED
           /\ Strip(x) # Strip(y) => SomeEdit

\* The three edit descriptors.
ReplaceEdit(from, to) == from \o <<" ", ARROW, " ">> \o to
RemoveEdit(word)      == <<"R","e","m","o","v","e",":"," ">> \o word
AddEdit(word)         == <<"A","d","d",":"," ">> \o word

\* The edits due at 1-based position i of the two word lists.
EditsAt(original_words, corrected_words, i) ==
    IF i <= Len(original_words) /\ i <= Len(corrected_words)
    THEN IF original_words[i] = corrected_words[i] THEN <<>>
         ELSE <<ReplaceEdit(original_words[i], corrected_words[i])>>
    ELSE IF i <= Len(original_words) THEN <<RemoveEdit(original_words[i])>>
    ELSE <<AddEdit(corrected_words[i])>>

\* C18: positional diff: with the two texts the fix-diff compares (the
\* original trimmed, the corrected text trimmed and without its quotes)
\* split on whitespace, the edit list is, for the positions 1 up to the
\* longer length in increasing order, nothing where the two words are equal,
\* a Replace where both words exist and differ, a Remove where only the
\* original has a word, and an Add where only the corrected text has one.
C18_PositionalDiff ==
    pc = "done" =>
        LET original_words  == Split(Strip(location))
            corrected_words == Split(StripQuotes(details))
            longer == IF Len(original_words) > Len(corrected_words)
                      THEN Len(original_words) ELSE Len(corrected_words)
        IN fix.changes =
               Concat([i \in 1..longer |-> EditsAt(original_words, corrected_words, i)])

\* The fix-diff ran on an original of five words and a corrected text of
\* four: the fourth words agree, the others differ, the fifth is removed.
C18_Witness ==
    /\ pc = "done"
    /\ Len(Split(Strip(location))) = 5
    /\ Len(Split(StripQuotes(details))) = 4
    /\ Split(Strip(location))[4] = Split(StripQuotes(details))[4]
    /\ Len(fix.changes) = 4
    /\ fix.changes[4] = RemoveEdit(Split(Strip(location))[5])

ELLIPSIS == <<".", ".", ".">>

\* The fix string ends with an ellipsis.
EndsWithEllipsis(f) == Len(f) >= 3 /\ SubSeq(f, Len(f) - 2, Len(f)) = ELLIPSIS

\* C19: fix-string truncation: the fix string lists at most the first 3
\* edits; it ends with an ellipsis exactly when there are more than 3
\* edits; with 1 to 3 edits it is all of them joined by ", ", without
\* ellipsis; and with no edit, when the two texts the fix-diff compares are
\* not identical, it is "No changes detected".
C19_Truncation ==
    pc = "done" =>
        LET n == Len(fix.changes)
        IN /\ n > 3 => fix.ret = Join(SubSeq(fix.changes, 1, 3), <<",", " ">>) \o ELLIPSIS
           /\ EndsWithEllipsis(fix.ret) <=> n > 3
           /\ n \in 1..3 => fix.ret = Join(fix.changes, <<",", " ">>)
           /\ (n = 0 /\ Strip(location) # StripQuotes(details))
                 => fix.ret = NO_CHANGES_DETECTED

\* C19 as amended: an ellipsis is appended to the listed edits exactly when
\* there are more than 3: with more than 3 edits the fix string is the
\* first 3 joined by ", " followed by an ellipsis; with 1 to 3 edits it is
\* all of them joined by ", " and nothing else, so that it ends with an
\* ellipsis only when its last edit does; and with no edit, when the two
\* texts the fix-diff compares are not identical, it is "No changes
\* detected".
C19_TruncationAmended ==
    pc = "done" =>
        LET n     == Len(fix.changes)
            shown == SubSeq(fix.changes, 1, IF n > 3 THEN 3 ELSE n)
        IN /\ n >= 1 =>
                 fix.ret = Join(shown, <<",", " ">>) \o (IF n > 3 THEN ELLIPSIS ELSE <<>>)
           /\ (n \in 1..3 /\ EndsWithEllipsis(fix.ret))
                 => EndsWithEllipsis(fix.changes[n])
           /\ (n = 0 /\ Strip(location) # StripQuotes(details))
                 => fix.ret = NO_CHANGES_DETECTED

\* The fix-diff ran on two texts of five words that differ at every
\* position: three edits are listed and the ellipsis follows.
C19_Witness ==
    /\ pc = "done"
    /\ Len(fix.changes) = 5
    /\ fix.ret = fix.changes[1] \o <<",", " ">> \o fix.changes[2] \o <<",", " ">>
                 \o fix.changes[3] \o ELLIPSIS

-----------------------------------------------------------------------------
(* Properties of review_brief (checked under Spec)                         *)

\* The fields on which the external opinion is consulted.
Consulted == {"Meta Title", "Meta Description", "Product Nav Tab"}

\* C5: equality override with an external opinion: every verdict of a
\* consulted field built from the external opinion whose final
\* recommendation, trimmed and stripped of surrounding quotes, equals the
\* trimmed text of the field has status ACCEPTED.
C5_EqualityOverride ==
    \A i \in DOMAIN results :
        LET v == results[i]
        IN (/\ v.use_case \in Consulted
            /\ v.ai_validated
            /\ StripQuotes(Unquoted(v.details)) = Strip(v.location))
           => v.status = ACCEPTED

\* The verdict the method of use_case emits on the normalized text t when no
\* external opinion is available.
RuleBasedVerdict(use_case, criterion, t, r) ==
    [status  |-> IF r[1] \/ (use_case = "Meta Title" /\ Strip(t) = Strip(r[2]))
                 THEN ACCEPTED ELSE REJECTED,
     details |-> Quoted(r[2])]

\* The external call of this run fails: inside OpenAIValidator, or by an
\* exception that escapes the hybrid validator.
ExternalCallFails == hybrid /\ ai.kind \in {"error", "raise"}

\* C6: a failing external call degrades to the rule-based verdict: when the
\* external call fails, the verdict of every consulted field with a non-empty
\* text has the status and the corrected text of the rule-based verdict.
C6_FailureDegrades ==
    ExternalCallFails =>
        \A i \in DOMAIN results :
            LET v  == results[i]
                rb == RuleBasedVerdict(v.use_case, v.criterion, v.location,
                                       Transformer(v.criterion, v.location))
            IN (v.use_case \in Consulted /\ v.location # <<>>)
               => v.status = rb.status /\ v.details = rb.details

\* A header is an eligible field when its level is one of the field roles
\* H2, H3 and H4.
HasRole(h) == h.level \in {"H2", "H3", "H4"}

\* The eligible fields of brief b, as <<use case, field text>>, in the order
\* metadata, headers, FAQ header, FAQ question and answer pairs, tabs, CTA.
ExpectedFields(b) ==
    << <<"Meta Title", b.meta_title>>, <<"Meta Description", b.meta_description>>,
       <<"H1", b.h1>>, <<"Header Caption", b.header_caption>> >>
    \o [i \in 1..Len(SelectSeq(b.headers, HasRole)) |->
           <<SelectSeq(b.headers, HasRole)[i].level, SelectSeq(b.headers, HasRole)[i].text>>]
    \o (IF b.faqs.header # <<>> THEN << <<"FAQ H2 Header", b.faqs.header>> >> ELSE <<>>)
    \o [k \in 1..(2 * Len(b.faqs.questions)) |->
           IF k % 2 = 1
           THEN <<"FAQ Question", b.faqs.questions[(k + 1) \div 2].question>>
           ELSE <<"FAQ Answer", b.faqs.questions[k \div 2].answer>>]
    \o [i \in 1..Len(b.product_nav.tabs) |-> <<"Product Nav Tab", b.product_nav.tabs[i].text>>]
    \o (IF b.cta.text # <<>> THEN << <<"CTA Text", b.cta.text>> >> ELSE <<>>)

\* C10: review_brief emits one verdict per eligible field in the fixed
\* order: at every point of a run the verdicts emitted so far are, one for
\* one and in order, those of the first eligible fields of the brief, and
\* when review_brief returns every eligible field has its verdict; with and
\* without the external opinion, whatever the outcome of a field.
C10_FixedOrder ==
    LET e == ExpectedFields(brief)
    IN /\ Len(results) <= Len(e)
       /\ \A i \in DOMAIN results :
              /\ results[i].use_case = e[i][1]
              /\ results[i].location = normalize_fortinet_shorthands(e[i][2])
       /\ pc = "return" => Len(results) = Len(e)

\* review_brief returned on a brief with every kind of field, the external
\* opinion enabled, and both outcomes among the verdicts.
C10_Witness ==
    /\ pc = "return"
    /\ hybrid
    /\ Len(brief.headers) = MaxHeaders
    /\ brief.faqs.header # <<>>
    /\ Len(brief.faqs.questions) = MaxFaqs
    /\ Len(brief.product_nav.tabs) = MaxTabs
    /\ brief.cta.text # <<>>
    /\ Len(results) = 6 + MaxHeaders + 2 * MaxFaqs + MaxTabs
    /\ \E i, j \in DOMAIN results :
           results[i].status = ACCEPTED /\ results[j].status = REJECTED

\* The rule each field role is checked against.
RoleRule(role) ==
    IF role \in {"Meta Title", "Product Nav Tab"} THEN TITLE
    ELSE IF role \in {"H1", "H2", "FAQ H2 Header"} THEN CAPITAL
    ELSE SENTENCE

\* The roles the claim names.
Roles ==
    {"Meta Title", "Product Nav Tab", "H1", "H2", "FAQ H2 Header",
     "Meta Description", "Header Caption", "H3", "H4", "FAQ Question",
     "FAQ Answer", "CTA Text"}

\* C20: the role-to-transformer mapping is fixed and total: the rule name of
\* every verdict is one of Capital Case, Title Case and Sentence case, and is
\* the one of the role of its field (Title Case for Meta Title and Product
\* Nav Tab; Capital Case for H1, H2 and the FAQ header; Sentence case for the
\* others), with and without the external opinion; and without it the
\* corrected text of the verdict is the output of that transformer on the
\* normalized field text.
C20_RoleMapping ==
    \A i \in DOMAIN results :
        LET role  == ExpectedFields(brief)[i][1]
            field == ExpectedFields(brief)[i][2]
        IN /\ role \in Roles
           /\ results[i].use_case = role
           /\ results[i].criterion \in {CAPITAL, TITLE, SENTENCE}
           /\ results[i].criterion = RoleRule(role)
           /\ ~hybrid =>
                 results[i].details =
                     Quoted(Transformer(RoleRule(role),
                                        normalize_fortinet_shorthands(field))[2])

\* review_brief returned without the external opinion on a brief with an H2
\* and an H3 header, a FAQ header, FAQ entries, tabs and a CTA: verdicts of
\* all three rules were emitted, and an H3 verdict was rejected with a
\* corrected text that capital case would not give.
C20_Witness ==
    /\ pc = "return"
    /\ ~hybrid
    /\ {results[i].criterion : i \in DOMAIN results} = {CAPITAL, TITLE, SENTENCE}
    /\ {"H2", "H3", "FAQ H2 Header", "FAQ Answer", "Product Nav Tab", "CTA Text"}
           \subseteq {results[i].use_case : i \in DOMAIN results}
    /\ \E i \in DOMAIN results :
          /\ results[i].use_case = "H3"
          /\ results[i].status = REJECTED
          /\ results[i].details # Quoted(validate_capital_case(results[i].location)[2])

\* C29: the verdict records the field text as given: the original text
\* (location) of every verdict of review_brief is the text the brief holds
\* for that field, so that the verdict of a field whose shorthand the
\* normalizer rewrote has an original text that differs from its corrected
\* text.
C29_OriginalAsGiven ==
    \A i \in DOMAIN results :
        LET given == ExpectedFields(brief)[i][2]
        IN /\ results[i].location = given
           /\ normalize_fortinet_shorthands(given) # given
                  => Unquoted(results[i].details) # results[i].location

-----------------------------------------------------------------------------
(* Properties of the hybrid methods (checked under SpecHybrid)             *)

\* The external result (ai_valid, ai_corrected) of the run.
ExternalResult == ai_validate(ai, text, res[2])

\* C11: merge policy: the hybrid methods return agreement = (rule_valid =
\* ai_valid); on agreement the final recommendation is the rule-based
\* correction, or the original text when both pass; on disagreement it is the
\* external correction, or the original text when the external opinion passes.
C11_MergePolicy ==
    pc = "done" =>
        LET rule_valid     == res[1]
            rule_corrected == res[2]
            ai_valid       == ExternalResult[1]
            ai_corrected   == ExternalResult[2]
        IN /\ res2.agreement = (rule_valid = ai_valid)
           /\ (rule_valid = ai_valid) =>
                 res2.final_recommendation = (IF rule_valid THEN text ELSE rule_corrected)
           /\ (rule_valid # ai_valid) =>
                 res2.final_recommendation = (IF ai_valid THEN text ELSE ai_corrected)

\* A hybrid method returned on a disagreement in which the external opinion
\* fails the text and its correction is neither the text nor the rule-based
\* correction.
C11_Witness ==
    /\ pc = "done"
    /\ res[1] /\ ~res2.ai_valid /\ ~res2.agreement
    /\ res2.final_recommendation = res2.ai_corrected
    /\ res2.ai_corrected # text
    /\ res2.ai_corrected # res[2]

\* C13: an empty field text is trivially passing: the normalizer returns the
\* empty string for the empty string, each transformer returns (True, ""),
\* and every verdict of review_brief for a field whose text is empty has
\* status ACCEPTED and an empty corrected text.
C13_EmptyPasses ==
    /\ normalize_fortinet_shorthands(<<>>) = <<>>
    /\ \A r \in {CAPITAL, TITLE, SENTENCE} : Transformer(r, <<>>) = <<TRUE, <<>>>>
    /\ \A i \in DOMAIN results :
          ExpectedFields(brief)[i][2] = <<>>
              => /\ results[i].location = <<>>
                 /\ results[i].status = ACCEPTED
                 /\ results[i].details = Quoted(<<>>)

\* review_brief returned on a brief whose Meta Description and H1 or Header
\* Caption are empty, with an external service that echoes the text.
C13_Witness ==
    /\ pc = "return"
    /\ hybrid /\ ai.kind = "echo"
    /\ brief.meta_description = <<>>
    /\ results[2].ai_validated /\ results[2].status = ACCEPTED
    /\ \E i \in DOMAIN results :
          ~results[i].ai_validated /\ results[i].location = <<>>

-----------------------------------------------------------------------------
(* Properties of the core on arbitrary texts (checked under SpecCore)      *)

\* A text: a sequence of characters, each a string.
IsText(v) == DOMAIN v = 1..Len(v) /\ \A i \in DOMAIN v : v[i] \in STRING

\* C14: the core raises no exception for any textual input: the normalizer,
\* the three transformers, the plural-acronym repair and the fix-diff raise
\* nothing and return a value: a text, or for a transformer a pair of a flag
\* and a text.
C14_NoException ==
    pc = "done" =>
        /\ res.raises = {}
        /\ IF rule \in {CAPITAL, TITLE, SENTENCE}
           THEN res.value[1] \in BOOLEAN /\ IsText(res.value[2])
           ELSE IsText(res.value)

\* The fix-diff returned on texts with different numbers of words, one of
\* them a vocabulary token wrapped in punctuation.
C14_Witness ==
    /\ pc = "done" /\ rule = FIX_DIFF
    /\ Len(Split(text)) = 3
    /\ details = Quoted(<<"\"","e","d","r","\"",".">>)
    /\ res.raises = {}
    /\ res.value # NO_CHANGE_NEEDED

-----------------------------------------------------------------------------
(* Properties of review_brief on a brief that lacks a key (SpecMissing)    *)

\* The brief lacks a required structural field: a top-level text field, the
\* level or text of a header, the question or answer of an FAQ entry, or the
\* text of a tab.
LacksRequiredField(b) ==
    \/ \E k \in TextFields : k \notin DOMAIN b
    \/ \E i \in DOMAIN Headers(b) : ~({"level", "text"} \subseteq DOMAIN Headers(b)[i])
    \/ \E i \in DOMAIN Questions(b) : ~({"question", "answer"} \subseteq DOMAIN Questions(b)[i])
    \/ \E i \in DOMAIN Tabs(b) : "text" \notin DOMAIN Tabs(b)[i]

\* C15: missing structural fields fail fast: review_brief does not return
\* on a brief that lacks a required structural field.
C15_MissingFieldsFailFast ==
    LacksRequiredField(brief) => pc # "return"

-----------------------------------------------------------------------------
(* Properties of repeated review_brief calls (checked under SpecCalls)     *)

\* The verdicts of the running or returned call are those of its own brief:
\* one for one and in order, the verdicts of the first eligible fields of
\* the brief passed to this call.
OnlyLatestBrief ==
    LET e == ExpectedFields(brief)
    IN /\ Len(results) <= Len(e)
       /\ \A i \in DOMAIN results :
              /\ results[i].use_case = e[i][1]
              /\ results[i].location = normalize_fortinet_shorthands(e[i][2])
       /\ pc = "return" => Len(results) = Len(e)

\* C16: no state persists across review_brief calls on one reviewer and the
\* input is not mutated: the verdict list of the latest call holds only the
\* verdicts of the latest brief, none carried over; a list returned by an
\* earlier call still holds the items it held when it was returned; and no
\* step of a call changes the brief that was passed to it.
C16_NoPersistence ==
    /\ [](OnlyLatestBrief)
    /\ [](\A k \in DOMAIN tokens : tokens[k].now = tokens[k].at_return)
    /\ [][pc' # "meta_title" => brief' = brief]_vars

\* The third call on one reviewer returned, each of the three calls on a
\* brief of another size, and the earlier two lists are not empty and differ
\* from the one just returned.
C16_Witness ==
    /\ pc = "return"
    /\ Len(tokens) = MaxCalls
    /\ \A k \in DOMAIN tokens :
          /\ tokens[k].at_return # <<>>
          /\ tokens[k].now # results
          /\ Len(tokens[k].now) # Len(results)
    /\ Len(tokens[1].now) # Len(tokens[2].now)

-----------------------------------------------------------------------------
(* Properties of the failed-items table (checked under SpecTable)          *)

\* The fix string lists an edit: a replace, a remove or an add.
ListsAnEdit(f) ==
    \/ Contains(f, <<" ", ARROW, " ">>)
    \/ Contains(f, <<"R","e","m","o","v","e",":"," ">>)
    \/ Contains(f, <<"A","d","d",":"," ">>)

\* The result is one the table must not show.
Suppressed(result) ==
    \/ result.status = ACCEPTED
    \/ Strip(result.location) = StripQuotes(result.details)
    \/ extract_fix_detail(result.location, result.details).ret
           \in {NO_CHANGE_NEEDED, NO_CHANGES_DETECTED}

\* C17: generate_failed_items_table emits a row only for a verdict that is
\* not ACCEPTED, and none for a verdict whose trimmed original text equals
\* its trimmed, quote-stripped corrected text or whose fix string is "No
\* change needed" or "No changes detected": an iteration that appends a row
\* does so for a verdict that is not suppressed, the row is that verdict's,
\* and every row of the table carries a fix string that lists an edit.
C17_TableSuppression ==
    /\ [][(pc = "loop" /\ tokens' # tokens) =>
             /\ ~Suppressed(results[idx])
             /\ Len(tokens') = Len(tokens) + 1
             /\ tokens'[Len(tokens')].Current = results[idx].location
             /\ tokens'[Len(tokens')].Fix =
                    extract_fix_detail(results[idx].location, results[idx].details).ret]_vars
    /\ [](\A k \in DOMAIN tokens :
             /\ tokens[k].Fix \notin {NO_CHANGE_NEEDED, NO_CHANGES_DETECTED}
             /\ ListsAnEdit(tokens[k].Fix))

\* The table was returned for two REJECTED verdicts: the first differs from
\* its correction in internal whitespace only and got no row, the second has
\* five replaced words and got the only row.
C17_Witness ==
    /\ pc = "done"
    /\ Len(results) = 2 /\ Len(tokens) = 1
    /\ results[1].status = REJECTED /\ results[2].status = REJECTED
    /\ Strip(results[1].location) # StripQuotes(results[1].details)
    /\ extract_fix_detail(results[1].location, results[1].details).ret = NO_CHANGES_DETECTED
    /\ Len(extract_fix_detail(results[2].location, results[2].details).changes) = 5
    /\ tokens[1].Current = results[2].location

-----------------------------------------------------------------------------
(* Properties of the sentence case transformer (checked under SpecCase)    *)

\* sentence_start of _validate_sentence_case after the i-th word of words
\* has been processed.
RECURSIVE FlagAfter(_, _)
FlagAfter(words, i) ==
    SentenceWord(words[i], IF i = 1 THEN TRUE ELSE FlagAfter(words, i - 1)).start

\* C21: sentence-start re-arming: after _validate_sentence_case has
\* processed any word of the text, whichever branch handled it, the
\* sentence-start flag is true exactly when that raw word ends in '.', '!'
\* or '?'.
C21_Rearming ==
    (pc = "once" /\ rule = SENTENCE) =>
        \A i \in DOMAIN Split(text) :
            FlagAfter(Split(text), i) = EndsSentence(Split(text)[i])

\* C22: the Sentence Case vocabulary rewrite keeps punctuation exactly: a
\* word p + k + s of the text, with k a vocabulary key in any casing (not a
\* brand-prefixed one) and p, s leading and trailing punctuation, is the
\* word p + canonical(k) + s of the corrected text of
\* _validate_sentence_case, with no character duplicated or dropped.
C22_PunctuationKept ==
    (pc = "once" /\ rule = SENTENCE) =>
        \A i \in DOMAIN Split(text) :
            LET word       == Split(text)[i]
                clean_word == CleanWord(word)
            IN (/\ clean_word # <<>>
                /\ InShorthands(Lower(clean_word))
                /\ ~IsFortiPrefixed(clean_word))
               => \A a \in CoreOffsets(word, clean_word) :
                      /\ i \in DOMAIN Split(res[2])
                      /\ Split(res[2])[i] =
                             SubSeq(word, 1, a)
                             \o FORTINET_SHORTHANDS[Lower(clean_word)]
                             \o SubSeq(word, a + Len(clean_word) + 1, Len(word))

-----------------------------------------------------------------------------
(* Properties of brand tokens in longer text (checked under SpecCase)      *)

\* The word without a leading '(' or '[' and without trailing punctuation.
BrandCore(word) ==
    LET w == IF word # <<>> /\ word[1] \in {"(", "["} THEN Tail(word) ELSE word
        RECURSIVE DropTrailing(_)
        DropTrailing(s) ==
            IF s # <<>> /\ s[Len(s)] \in {".", ",", ":", ";", "!", "?", ")", "]"}
            THEN DropTrailing(SubSeq(s, 1, Len(s) - 1)) ELSE s
    IN DropTrailing(w)

\* C23: brand tokens are preserved verbatim inside longer text by all three
\* transformers: every word of a text of two or more words whose core
\* (without a leading '(' or '[' and trailing punctuation) begins with
\* 'forti', in any casing, is the word at the same position of the corrected
\* text, character for character.
C23_BrandVerbatim ==
    (pc = "once" /\ Len(Split(text)) >= 2) =>
        \A i \in DOMAIN Split(text) :
            StartsWith(Lower(BrandCore(Split(text)[i])), FORTI)
                => /\ i \in DOMAIN Split(res[2])
                   /\ Split(res[2])[i] = Split(text)[i]

-----------------------------------------------------------------------------
(* Properties of one field method on a field text (checked under SpecField) *)

\* The canonical display form of the word, when the word is a vocabulary
\* key in some casing.
IsKeyWord(word) == InShorthands(Lower(word))

\* C24: canonical vocabulary forms survive the Capital Case pipeline: for a
\* field validated with Capital Case (H1, H2, FAQ header), every vocabulary
\* key that is a word of the field has its canonical display form as a word
\* of the corrected text of the verdict, and a field whose words are all
\* canonical forms or capitalized words is ACCEPTED.
C24_CanonicalSurvives ==
    (pc = "appended" /\ results[1].criterion = CAPITAL) =>
        LET words     == Split(text)
            corrected == Split(Unquoted(results[1].details))
        IN /\ \A i \in DOMAIN words :
                  IsKeyWord(words[i]) =>
                      \E j \in DOMAIN corrected :
                          corrected[j] = FORTINET_SHORTHANDS[Lower(words[i])]
           /\ (/\ text = Strip(text)
               /\ \A i \in DOMAIN words :
                      \/ IsKeyWord(words[i]) /\ words[i] = FORTINET_SHORTHANDS[Lower(words[i])]
                      \/ ~IsKeyWord(words[i]) /\ words[i] = Capitalize(words[i]))
                  => results[1].status = ACCEPTED

-----------------------------------------------------------------------------
(* Properties of the title case transformer (checked under SpecCase)       *)

\* The word has no letter, or its first letter is an uppercase one.
FirstLetterUpper(word) ==
    \A i \in DOMAIN word :
        (word[i] \in LowerSet \cup UpperSet
         /\ \A j \in 1..(i - 1) : word[j] \notin LowerSet \cup UpperSet)
            => word[i] \in UpperSet

\* C25: Title Case capitalizes the boundary words: the first and the last
\* word of the corrected text of _validate_title_case have an uppercase
\* letter as their first letter, unless the word is a brand-prefixed token;
\* also when the word carries leading punctuation and when it is a function
\* word.
C25_BoundaryWords ==
    (pc = "once" /\ rule = TITLE /\ Split(res[2]) # <<>>) =>
        LET corrected == Split(res[2])
        IN \A i \in {1, Len(corrected)} :
               \/ IsFortiPrefixed(CleanWord(corrected[i]))
               \/ FirstLetterUpper(corrected[i])

-----------------------------------------------------------------------------
(* Properties of the verdict of one field method (checked under SpecField) *)

\* C27: equality override without an external opinion: for every field
\* role, a verdict built from the rule-based result whose corrected text,
\* trimmed, equals the trimmed text of the field has status ACCEPTED, also
\* when the transformer did not pass the text.
C27_RuleBasedOverride ==
    pc = "appended" =>
        \A i \in DOMAIN results :
            (/\ ~results[i].ai_validated
             /\ Strip(Unquoted(results[i].details)) = Strip(results[i].location))
                => results[i].status = ACCEPTED

\* The quote characters str.strip removes from the ends of a recommendation.
QuoteChars == {"\"", "'"}

\* C28: every ACCEPTED verdict recommends no change: with and without the
\* external opinion, the corrected text of a verdict with status ACCEPTED,
\* trimmed and stripped of its surrounding quotes, is the trimmed original
\* text of that verdict.
C28_AcceptedUnchanged ==
    pc = "appended" =>
        \A i \in DOMAIN results :
            results[i].status = ACCEPTED
                => StripQuotes(Unquoted(results[i].details)) = Strip(results[i].location)

\* C28 as amended: the corrected text of a verdict with status ACCEPTED
\* equals the trimmed original text of that verdict either when it is
\* trimmed, or when it is trimmed and stripped of its surrounding quotes;
\* without the external opinion it does so when it is trimmed; and when the
\* trimmed original text neither begins nor ends with a quote character it
\* does so when it is trimmed and stripped of its surrounding quotes.
C28_AcceptedUnchangedAmended ==
    pc = "appended" =>
        \A i \in DOMAIN results :
            LET original  == Strip(results[i].location)
                corrected == Unquoted(results[i].details)
            IN results[i].status = ACCEPTED =>
                  /\ \/ Strip(corrected) = original
                     \/ StripQuotes(corrected) = original
                  /\ ~results[i].ai_validated => Strip(corrected) = original
                  /\ (original = <<>> \/ {original[1], original[Len(original)]} \cap QuoteChars = {})
                         => StripQuotes(corrected) = original

\* A Meta Title whose text ends with a quote character was accepted on the
\* reply of the external service that is the text in single quotes: the
\* reply is the corrected text of the verdict, and it equals the original
\* once stripped of its surrounding quotes, not when trimmed only.
C28_Witness ==
    /\ pc = "appended"
    /\ hybrid /\ ai.kind = "single_quoted"
    /\ results[1].use_case = "Meta Title"
    /\ results[1].status = ACCEPTED
    /\ results[1].ai_validated
    /\ results[1].location[Len(results[1].location)] \in QuoteChars
    /\ Unquoted(results[1].details) = <<"'">> \o results[1].location \o <<"'">>
    /\ StripQuotes(Unquoted(results[1].details)) = Strip(results[1].location)
    /\ Strip(Unquoted(results[1].details)) # Strip(results[1].location)

-----------------------------------------------------------------------------
(* Properties of all three transformers on text without keys (SpecCase)    *)

\* No word of the text is a vocabulary key in some casing, with or without
\* attached punctuation.
HasNoKey(t) ==
    \A i \in DOMAIN Split(t) : ~InShorthands(Lower(CleanWord(Split(t)[i])))

\* C30: the transformers change only letter case: for a text without a
\* vocabulary key, the corrected text of each transformer has as many words
\* as the text, and each of its words equals the word of the text at the
\* same position when both are put in lowercase; no punctuation or other
\* character is added or dropped.
C30_OnlyLetterCase ==
    (pc = "once" /\ HasNoKey(text)) =>
        /\ Len(Split(res[2])) = Len(Split(text))
        /\ \A i \in DOMAIN Split(text) :
               Lower(Split(res[2])[i]) = Lower(Split(text)[i])

====
